---- MODULE Spec2Model ----
(***************************************************************************)
(* Session and transfer coordination of the document uploader: the Angular *)
(* client and the Express backend.                                         *)
(*                                                                         *)
(*   SpecAuth    AuthService (token lifecycle), AuthInterceptor (request   *)
(*               coordinator) and AuthGuard (route guard), with the HTTP   *)
(*               exchanges they start.                                     *)
(*   SpecUpload  UploadService (upload queue) with the upload requests it  *)
(*               starts.                                                   *)
(*   SpecValidate  admission of candidate files into the upload queue.     *)
(*   SpecBackfill  scheduling of the upload queue with successful uploads. *)
(*   SpecSession   a restored session with a proactive refresh and an      *)
(*               upload queue in the same page.                            *)
(*   SpecSharedStore  SpecAuth with a second tab of the application that   *)
(*               empties the shared localStorage.                          *)
(*   SpecClock   the expiry arithmetic of AuthService on milliseconds.     *)
(*   SpecServerAuth  the backend's token endpoints (login, refresh,        *)
(*               logout) and the authenticateToken middleware.             *)
(*   SpecSignup  concurrent registrations in the backend.                  *)
(*   SpecServerUpload  the backend's processing of upload requests.        *)
(*   SpecServerFiles  the backend's routes over the stored files.          *)
(*                                                                         *)
(* The browser runs one callback at a time: every action below is one      *)
(* callback (a user call, a timer firing, an HTTP response delivery) with  *)
(* everything it does synchronously.                                       *)
(***************************************************************************)
EXTENDS Integers, Sequences, FiniteSets, TLC

\* ------------------------------------------------------------------ bounds
\* HTTP exchanges started through HttpClient in one behaviour of SpecAuth.
MaxCalls == 3
\* HTTP exchanges started in one behaviour of SpecCoordinator.
MaxCoordCalls == 4
\* Token pairs the server issues after the first one.
MaxTokens == 1
\* Upload tasks created in one behaviour of SpecUpload.
MaxFiles == 4
\* Upload tasks created in one behaviour of SpecValidate.
MaxValidateFiles == 3
\* Upload tasks created in one behaviour of SpecSession.
MaxSessionFiles == 2
\* Upload tasks created in one behaviour of SpecBackfill.
MaxBackfillFiles == 5

VARIABLES
  \* localStorage: access_token, refresh_token, user_data (0 = absent)
  storeAccess, storeRefresh, storeUser,
  \* AuthService: currentUserSubject, isAuthenticatedSubject, refreshTokenTimer
  currentUser, isAuthenticatedSubject, refreshTokenTimer,
  \* wall clock has passed the exp of the stored access token
  clockPastExp,
  \* AuthInterceptor: isRefreshing, refreshTokenSubject (0 = null)
  isRefreshing, refreshTokenSubject,
  \* HTTP exchanges: call id -> record; ids are handed out in order
  calls, nextCall,
  \* token pairs issued by the server so far
  issued,
  \* navigations to /login raised so far (saturating at 1: raised or not)
  navigatedToLogin,
  \* setTimeout timers created by scheduleTokenRefresh that are neither
  \* cleared nor fired; refreshTokenTimer above tells whether the timer the
  \* field refers to is one of them
  pendingTimers,
  \* POST /auth/logout requests sent and not yet answered
  revocations,
  \* the logout() calls of the latest step, in order: was a refresh token
  \* stored when the call began
  logoutLog,
  \* what refreshToken() returned in the latest step: "none" (not called),
  \* "NoRefreshToken" (throwError) or "request" (the POST /auth/refresh)
  refreshResult,
  \* the expiry arithmetic on numbers (SpecClock): Date.now() in ms; the
  \* access_token in localStorage with its payload; the time in ms at which
  \* the pending timer is due (-1 = none); what the isAuthenticated() call of
  \* the latest step returned
  clockNow, accessJwt, timerDue, lastAnswer,
  \* UploadService: uploadQueueSubject.value.files / .activeUploads
  files, activeUploads,
  \* upload requests sent and not yet completed, per task id
  inflight,
  \* task ids generateId() has handed out
  nextId,
  \* decrementActiveUploads() calls made by the latest step
  lastDecrements,
  \* how a task left the queue: "none", "cancel", "cancelAll", "clear"
  removedBy,
  \* ids processUploadQueue() handed to startSingleUpload in the latest step
  lastStarted,
  \* id of the task retryUpload() reset in the latest step (0 = none)
  retried,
  \* what the upload request that completed in the latest step reported
  lastOutcome,
  \* uploadCompleteSubject.next() calls made by the latest step
  uploadCompleteEmits,
  \* addFilesToQueue in the latest step: the files it was given, the list it
  \* returned and the messages it alerted
  offered, returned, alerted,
  \* backend AuthService: this.users (username -> user), this.refreshTokens
  users, refreshTokens,
  \* the server's Date.now() in whole seconds, as jsonwebtoken reads it
  serverNow,
  \* POST /auth/signup requests inside registerUser or after it
  signups,
  \* tokens the server has sent to clients; refresh tokens a logout has
  \* revoked; users whose signup was answered 201
  handedOut, revoked, signedUp,
  \* the response the server sent in the latest step
  lastReply,
  \* backend UploadService: this.uploads (file id -> file info),
  \* this.userUploads (user id -> file ids), the files in the upload
  \* directory, the ids crypto.randomUUID() has handed out
  uploads, userUploads, disk, nextUuid,
  \* POST /upload/files requests inside processMultipleUploads
  uploadRequests,
  \* the response the upload controller sent in the latest step
  fileReply

clockVars == <<clockNow, accessJwt, timerDue, lastAnswer>>

sessionVars == <<storeAccess, storeRefresh, storeUser, currentUser,
                 isAuthenticatedSubject, refreshTokenTimer, clockPastExp,
                 isRefreshing, refreshTokenSubject, calls, nextCall, issued,
                 navigatedToLogin, pendingTimers, revocations, logoutLog,
                 refreshResult>>

authVars == <<sessionVars, clockVars>>

uploadVars == <<files, activeUploads, inflight, nextId, lastDecrements,
                removedBy, lastStarted, retried, lastOutcome,
                uploadCompleteEmits, offered, returned, alerted>>

serverAuthVars == <<users, refreshTokens, serverNow, signups, handedOut,
                    revoked, signedUp, lastReply>>

serverFileVars == <<uploads, userUploads, disk, nextUuid, uploadRequests,
                    fileReply>>

serverVars == <<serverAuthVars, serverFileVars>>

vars == <<authVars, uploadVars, serverVars>>

CallIds == 1..(IF MaxCalls > MaxCoordCalls THEN MaxCalls ELSE MaxCoordCalls)

\* the ids generateId() can hand out
TaskIds ==
  1..(IF MaxFiles > MaxBackfillFiles THEN MaxFiles ELSE MaxBackfillFiles)

\* A token pair is named by a non-zero integer. The access token of pair k is
\* k when its payload decodes and -k when it does not (atob/JSON.parse throw).
Abs(t) == IF t < 0 THEN -t ELSE t

NoCall ==
  [kind |-> "none", origin |-> "none", parent |-> 0, st |-> "none",
   path |-> "none", tok |-> 0, retryTok |-> 0, sends |-> 0,
   resp |-> "none", err |-> "none", newTok |-> 0, loggedOut |-> FALSE]

\* The whole client state as one value, so that the synchronous call chains of
\* a callback can be composed as functions. The records of the latest step
\* start empty.
State ==
  [storeAccess |-> storeAccess, storeRefresh |-> storeRefresh,
   storeUser |-> storeUser, currentUser |-> currentUser,
   isAuthenticatedSubject |-> isAuthenticatedSubject,
   refreshTokenTimer |-> refreshTokenTimer, clockPastExp |-> clockPastExp,
   isRefreshing |-> isRefreshing, refreshTokenSubject |-> refreshTokenSubject,
   calls |-> calls, nextCall |-> nextCall, issued |-> issued,
   navigatedToLogin |-> navigatedToLogin, pendingTimers |-> pendingTimers,
   revocations |-> revocations, logoutLog |-> <<>>,
   refreshResult |-> "none"]

CommitAuth(T) ==
  /\ storeAccess' = T.storeAccess
  /\ storeRefresh' = T.storeRefresh
  /\ storeUser' = T.storeUser
  /\ currentUser' = T.currentUser
  /\ isAuthenticatedSubject' = T.isAuthenticatedSubject
  /\ refreshTokenTimer' = T.refreshTokenTimer
  /\ clockPastExp' = T.clockPastExp
  /\ isRefreshing' = T.isRefreshing
  /\ refreshTokenSubject' = T.refreshTokenSubject
  /\ calls' = T.calls
  /\ nextCall' = T.nextCall
  /\ issued' = T.issued
  /\ navigatedToLogin' = T.navigatedToLogin
  /\ pendingTimers' = T.pendingTimers
  /\ revocations' = T.revocations
  /\ logoutLog' = T.logoutLog
  /\ refreshResult' = T.refreshResult
  /\ UNCHANGED clockVars

Commit(T) ==
  /\ UNCHANGED <<uploadVars, serverVars>>
  /\ CommitAuth(T)

\* no upload request completed in the step
NoOutcome == [kind |-> "none", error |-> "none"]

\* UploadService after construction
EmptyQueue ==
  /\ files = <<>>
  /\ activeUploads = 0
  /\ inflight = [i \in TaskIds |-> 0]
  /\ nextId = 1
  /\ lastDecrements = 0
  /\ removedBy = [i \in TaskIds |-> "none"]
  /\ lastStarted = <<>>
  /\ retried = 0
  /\ lastOutcome = NoOutcome
  /\ uploadCompleteEmits = 0
  /\ offered = <<>>
  /\ returned = <<>>
  /\ alerted = <<>>

\* ------------------------------------------------ backend: values and start

\* Tokens the backend signs in one behaviour of SpecServerAuth.
MaxHandedOut == 5
\* POST /auth/signup requests in one behaviour of SpecServerAuth.
MaxSignups == 2
\* File ids crypto.randomUUID() hands out in one behaviour of SpecServerUpload.
MaxServerFiles == 4
\* Files in one POST /upload/files request.
MaxRequestFiles == 4
\* POST /upload/files requests in one behaviour of SpecServerUpload.
MaxUploadRequests == 2
\* Files uploaded in one behaviour of SpecServerFiles.
MaxOwnedFiles == 2

SignupSlots == 1..MaxSignups
FileIds == 1..MaxServerFiles
UploadSlots == 1..MaxUploadRequests
\* req.user.id of the authenticated users of the upload endpoints
UserIds == {1, 2}

\* no token: an undefined header field or body property
NoToken ==
  [typ |-> "none", id |-> 0, username |-> "", email |-> "", role |-> "",
   iat |-> 0]

\* null as jwt.verify's result
NoClaims == [id |-> 0, username |-> "", email |-> "", role |-> ""]

NoUser == [id |-> 0, username |-> "", email |-> "", role |-> ""]

\* no response sent by the auth routes in the step
NoReply ==
  [endpoint |-> "none", status |-> 0, header |-> <<>>, presented |-> NoToken,
   accessToken |-> NoToken, refreshToken |-> NoToken, handlerRan |-> FALSE,
   reqUser |-> NoClaims]

NoSignup == [st |-> "free", username |-> "", email |-> "", user |-> NoUser]

NoFile == [stored |-> FALSE, uploadedBy |-> 0, originalName |-> 0]

NoUploadRequest ==
  [st |-> "free", user |-> 0, total |-> 0,
   saves |-> [i \in 1..MaxRequestFiles |-> "none"],
   successful |-> <<>>, failed |-> <<>>]

\* no response sent by the upload routes in the step
NoFileReply ==
  [endpoint |-> "none", user |-> 0, fileIds |-> {}, status |-> 0,
   listed |-> {}, successful |-> <<>>, failed |-> <<>>, total |-> 0,
   successCount |-> 0, failureCount |-> 0]

\* the backend AuthService after construction, before users.json is read
ServerAuthIdle ==
  /\ users = <<>>
  /\ refreshTokens = {}
  /\ serverNow = 0
  /\ signups = [s \in SignupSlots |-> NoSignup]
  /\ handedOut = {}
  /\ revoked = {}
  /\ signedUp = {}
  /\ lastReply = NoReply

\* the backend UploadService after construction
ServerFilesIdle ==
  /\ uploads = [f \in FileIds |-> NoFile]
  /\ userUploads = [u \in UserIds |-> {}]
  /\ disk = {}
  /\ nextUuid = 1
  /\ uploadRequests = [r \in UploadSlots |-> NoUploadRequest]
  /\ fileReply = NoFileReply

\* no backend in the picture: the specifications of the client
ServerIdle == ServerAuthIdle /\ ServerFilesIdle

\* ------------------------------------------------------------ AuthService

\* (mutant) user_data is left in the store
clearTokensKeepsUser(S) ==
  [S EXCEPT !.storeAccess = 0, !.storeRefresh = 0]

\* clearTokens()
clearTokens(S) ==
  [S EXCEPT !.storeAccess = 0, !.storeRefresh = 0, !.storeUser = 0]

\* clearTimeout(this.refreshTokenTimer): cancels the timer the field refers
\* to if it is still pending
clearTimeout(S) ==
  [S EXCEPT !.pendingTimers = IF S.refreshTokenTimer THEN @ - 1 ELSE @,
            !.refreshTokenTimer = FALSE]

\* (mutant) the revocation is posted whether or not a refresh token was stored
logoutAlwaysRevokes(S) ==
  [clearTimeout(clearTokens(S))
     EXCEPT !.currentUser = 0,
            !.isAuthenticatedSubject = FALSE,
            !.revocations = @ + 1,
            !.logoutLog = Append(@, [hadRefresh |-> S.storeRefresh # 0]),
            !.navigatedToLogin = TRUE]

\* logout(): read the refresh token, clear the store, publish null/false,
\* cancel the timer, post the revocation if a refresh token was read (fire
\* and forget; sent after the store is cleared, so it carries no bearer token
\* and never enters handle401Error), navigate to /login.
logout(S) ==
  LET refreshToken_ == S.storeRefresh IN
  [clearTimeout(clearTokens(S))
     EXCEPT !.currentUser = 0,
            !.isAuthenticatedSubject = FALSE,
            !.revocations = IF refreshToken_ # 0 THEN @ + 1 ELSE @,
            !.logoutLog = Append(@, [hadRefresh |-> refreshToken_ # 0]),
            !.navigatedToLogin = TRUE]

\* JSON.parse(atob(token.split('.')[1])) succeeds
Decodable(t) == t > 0

\* isTokenExpired(token)
isTokenExpired(S, t) == IF Decodable(t) THEN S.clockPastExp ELSE TRUE

\* isAuthenticated()
isAuthenticated(S) ==
  S.storeAccess # 0 /\ ~isTokenExpired(S, S.storeAccess)

\* this.refreshTokenTimer = setTimeout(...)
setTimeout(S) ==
  [S EXCEPT !.pendingTimers = @ + 1, !.refreshTokenTimer = TRUE]

\* (mutant) the pending timer is not cleared before the new one is set
scheduleTokenRefreshNoClear(S) ==
  IF S.storeAccess = 0 THEN S
  ELSE IF Decodable(S.storeAccess) THEN setTimeout(S)
  ELSE logout(S)

\* scheduleTokenRefresh(): a new timer replaces the pending one; a token that
\* does not decode forces logout.
scheduleTokenRefresh(S) ==
  IF S.storeAccess = 0 THEN S
  ELSE IF Decodable(S.storeAccess) THEN setTimeout(clearTimeout(S))
  ELSE logout(S)

\* handleAuthSuccess(response): response carries the token pair t
handleAuthSuccess(S, t) ==
  scheduleTokenRefresh(
    [S EXCEPT !.storeAccess = t, !.storeRefresh = Abs(t), !.storeUser = Abs(t),
              !.currentUser = Abs(t), !.isAuthenticatedSubject = TRUE,
              !.clockPastExp = FALSE])


\* ------------------------------------------------- HTTP exchanges (calls)

\* A request handed to HttpClient passes AuthInterceptor.intercept: the stored
\* access token, if any, is attached and the request is sent.
intercept(S, kind, origin, parent) ==
  [S EXCEPT !.calls[S.nextCall] =
              [NoCall EXCEPT !.kind = kind, !.origin = origin,
                             !.parent = parent, !.st = "inflight",
                             !.tok = S.storeAccess, !.sends = 1],
            !.nextCall = S.nextCall + 1]

OkResult(t) == [ok |-> TRUE, tok |-> t, err |-> "none"]
ErrResult(e) == [ok |-> FALSE, tok |-> 0, err |-> e]

\* The call's observable has delivered its result to its subscriber.
Final(S, c, res) ==
  [S EXCEPT !.calls[c].st = IF res.ok THEN "ok" ELSE "err",
            !.calls[c].err = res.err,
            !.calls[c].newTok = res.tok]

\* refreshTokenSubject.next(token): every request parked in the else branch of
\* handle401Error passes filter/take(1) and is re-sent with the token.
EmitToken(S, t) ==
  [S EXCEPT !.refreshTokenSubject = t,
            !.calls = [c \in CallIds |->
                         IF S.calls[c].st = "waiting" /\ t # 0
                         THEN [S.calls[c] EXCEPT !.st = "retry",
                                                 !.retryTok = t,
                                                 !.sends = @ + 1]
                         ELSE S.calls[c]]]

\* (mutant) the stored request is re-sent as it was, with its old token
RetryTriggerStaleToken(S, p, t) ==
  [S EXCEPT !.calls[p].st = "retry", !.calls[p].retryTok = S.calls[p].tok,
            !.calls[p].sends = @ + 1]

\* next.handle(addTokenToRequest(request, token)) in the switchMap of the
\* request that started the refresh
RetryTrigger(S, p, t) ==
  [S EXCEPT !.calls[p].st = "retry", !.calls[p].retryTok = t,
            !.calls[p].sends = @ + 1]

RECURSIVE CallerResult(_, _, _), SubscriberResult(_, _, _)

\* What is piped after the interceptor for call c receives `res`:
\*   login/signup  tap(handleAuthSuccess), catchError(handleError)
\*   refresh       tap(handleAuthSuccess), catchError(logout; rethrow)
\*   api           the caller's subscribe
CallerResult(S, c, res) ==
  LET k == S.calls[c].kind IN
  IF k = "refresh" THEN
    IF res.ok
    THEN SubscriberResult(handleAuthSuccess(S, res.tok), c, res)
    ELSE SubscriberResult([logout(S) EXCEPT !.calls[c].loggedOut = TRUE],
                          c, res)
  ELSE IF k = "login" THEN
    IF res.ok THEN Final(handleAuthSuccess(S, res.tok), c, res)
    ELSE Final(IF res.err = "401" THEN logout(S) ELSE S, c, res)
  ELSE Final(S, c, res)

\* The subscriber of authService.refreshToken() for refresh call c:
\*   timer  logs
\*   guard  map(() => true) / catchError(redirectToLogin)
\*   coord  the switchMap / catchError of handle401Error for request p
SubscriberResult(S, c, res) ==
  LET o == S.calls[c].origin
      p == S.calls[c].parent
      S1 == Final(S, c, res)
  IN
  IF o = "coord" THEN
    IF res.ok
    THEN RetryTrigger(EmitToken([S1 EXCEPT !.isRefreshing = FALSE], res.tok),
                      p, res.tok)
    ELSE CallerResult(logout([S1 EXCEPT !.isRefreshing = FALSE]), p, res)
  ELSE IF o = "guard" THEN
    IF res.ok THEN S1 ELSE [S1 EXCEPT !.navigatedToLogin = TRUE]
  ELSE S1

\* (mutant) the request is sent without looking for a refresh token
refreshTokenAlwaysRequests(S, origin, parent) ==
  intercept([S EXCEPT !.refreshResult = "request"], "refresh", origin, parent)

\* refreshToken() together with the subscription of its caller
refreshToken(S, origin, parent) ==
  IF S.storeRefresh = 0
  THEN LET S1 == logout([S EXCEPT !.refreshResult = "NoRefreshToken"]) IN
       IF origin = "guard" THEN [S1 EXCEPT !.navigatedToLogin = TRUE] ELSE S1
  ELSE intercept([S EXCEPT !.refreshResult = "request"],
                 "refresh", origin, parent)

\* handle401Error(request, next) for call c
handle401Error(S, c) ==
  IF ~S.isRefreshing THEN
    LET S1 == [S EXCEPT !.isRefreshing = TRUE, !.refreshTokenSubject = 0] IN
    IF S1.storeRefresh # 0
    THEN refreshToken([S1 EXCEPT !.calls[c].st = "refreshing",
                                 !.calls[c].path = "trigger"], "coord", c)
    ELSE CallerResult(logout([S1 EXCEPT !.isRefreshing = FALSE]), c,
                      ErrResult("noRefreshToken"))
  ELSE IF S.refreshTokenSubject # 0
  THEN [S EXCEPT !.calls[c].st = "retry", !.calls[c].path = "waiter",
                 !.calls[c].retryTok = S.refreshTokenSubject,
                 !.calls[c].sends = @ + 1]
  ELSE [S EXCEPT !.calls[c].st = "waiting", !.calls[c].path = "waiter"]

\* (mutant) every 401 enters handle401Error, token attached or not
interceptErrorAny401(S, c, e) ==
  IF e = "401"
  THEN handle401Error(S, c)
  ELSE CallerResult(S, c, ErrResult(e))

\* catchError of intercept: the first response of call c is the error e
interceptError(S, c, e) ==
  IF e = "401" /\ S.calls[c].tok # 0
  THEN handle401Error(S, c)
  ELSE CallerResult(S, c, ErrResult(e))

\* An error of the re-sent request: the request that started the refresh has
\* the catchError of handle401Error after its switchMap; a parked request has
\* nothing between the retry and its caller.
retryError(S, c, e) ==
  IF S.calls[c].path = "trigger"
  THEN CallerResult(logout([S EXCEPT !.isRefreshing = FALSE]), c, ErrResult(e))
  ELSE CallerResult(S, c, ErrResult(e))


\* ---------------------------------------------------------------- actions

\* initializeAuth(): the constructor restores a session found in localStorage
initializeAuth(S) ==
  IF S.storeAccess # 0 /\ S.storeUser # 0
  THEN scheduleTokenRefresh([S EXCEPT !.currentUser = S.storeUser,
                                      !.isAuthenticatedSubject = TRUE])
  ELSE S

\* localStorage before the application starts: empty, or the session a
\* previous page load left there (token pair 1)
StoredAtStart(k, past) ==
  [storeAccess |-> k, storeRefresh |-> k, storeUser |-> k, currentUser |-> 0,
   isAuthenticatedSubject |-> FALSE, refreshTokenTimer |-> FALSE,
   clockPastExp |-> past, isRefreshing |-> FALSE, refreshTokenSubject |-> 0,
   calls |-> [c \in CallIds |-> NoCall], nextCall |-> 1, issued |-> k,
   navigatedToLogin |-> FALSE, pendingTimers |-> 0, revocations |-> 0,
   logoutLog |-> <<>>, refreshResult |-> "none"]

\* no access token
NoJwt == [kind |-> "none", exp |-> 0]

StartSessionIn(T) ==
  /\ storeAccess = T.storeAccess
  /\ storeRefresh = T.storeRefresh
  /\ storeUser = T.storeUser
  /\ currentUser = T.currentUser
  /\ isAuthenticatedSubject = T.isAuthenticatedSubject
  /\ refreshTokenTimer = T.refreshTokenTimer
  /\ clockPastExp = T.clockPastExp
  /\ isRefreshing = T.isRefreshing
  /\ refreshTokenSubject = T.refreshTokenSubject
  /\ calls = T.calls
  /\ nextCall = T.nextCall
  /\ issued = T.issued
  /\ navigatedToLogin = T.navigatedToLogin
  /\ pendingTimers = T.pendingTimers
  /\ revocations = T.revocations
  /\ logoutLog = T.logoutLog
  /\ refreshResult = T.refreshResult

StartIn(T) ==
  /\ clockNow = 0
  /\ accessJwt = NoJwt
  /\ timerDue = -1
  /\ lastAnswer = "none"
  /\ StartSessionIn(T)

InitAuth ==
  /\ \E k \in {0, 1} : \E past \in BOOLEAN :
       /\ k = 0 => ~past
       /\ StartIn(initializeAuth(StoredAtStart(k, past)))
  /\ EmptyQueue
  /\ ServerIdle

\* login(credentials): POST /auth/login
Login ==
  /\ nextCall <= MaxCalls
  /\ Commit(intercept(State, "login", "app", 0))

\* any other HttpClient request of the application (file list, upload, ...)
ApiRequestUpTo(n) ==
  /\ nextCall <= n
  /\ Commit(intercept(State, "api", "app", 0))

ApiRequest == ApiRequestUpTo(MaxCalls)

\* the setTimeout callback of scheduleTokenRefresh: a pending timer fires,
\* the one the field refers to (current) or one created before it
TimerFire ==
  /\ pendingTimers > 0
  /\ storeRefresh # 0 => nextCall <= MaxCalls
  /\ \E current \in BOOLEAN :
       /\ current => refreshTokenTimer
       /\ ~current => pendingTimers > (IF refreshTokenTimer THEN 1 ELSE 0)
       /\ Commit(refreshToken(
                   [State EXCEPT !.pendingTimers = @ - 1,
                                 !.refreshTokenTimer =
                                   IF current THEN FALSE ELSE @],
                   "timer", 0))

\* AuthGuard.checkAuth
checkAuth(S) ==
  IF isAuthenticated(S) THEN S
  ELSE IF S.storeRefresh # 0 THEN refreshToken(S, "guard", 0)
  ELSE [S EXCEPT !.navigatedToLogin = TRUE]

GuardCheck ==
  /\ ~isAuthenticated(State)
  /\ storeRefresh # 0 => nextCall <= MaxCalls
  /\ Commit(checkAuth(State))

\* the wall clock passes the exp of the stored access token
ClockPassesExp ==
  /\ storeAccess # 0
  /\ ~clockPastExp
  /\ Commit([State EXCEPT !.clockPastExp = TRUE])

ErrorStatuses == {"401", "403", "500"}

\* Would handle401Error for call c start a refresh call now?
StartsRefresh(c, e) ==
  e = "401" /\ calls[c].tok # 0 /\ ~isRefreshing /\ storeRefresh # 0

\* The body of a 2xx response to call c: login and refresh responses carry a
\* freshly issued token pair, whose access token may fail to decode.
IssuesToken(c) == calls[c].kind \in {"login", "refresh"}

\* 2xx response to the first send of call c
RespondOk(c) ==
  /\ calls[c].st = "inflight"
  /\ IF IssuesToken(c)
     THEN /\ issued <= MaxTokens
          /\ \E t \in {issued + 1, -(issued + 1)} :
               Commit(CallerResult(
                        [State EXCEPT !.calls[c].resp = "ok",
                                      !.issued = issued + 1],
                        c, OkResult(t)))
     ELSE Commit(CallerResult([State EXCEPT !.calls[c].resp = "ok"],
                              c, OkResult(0)))

\* error response (or transport failure, "500") to the first send of call c
RespondErrorUpTo(c, n) ==
  /\ calls[c].st = "inflight"
  /\ \E e \in ErrorStatuses :
       /\ StartsRefresh(c, e) => nextCall <= n
       /\ Commit(interceptError([State EXCEPT !.calls[c].resp = e], c, e))

RespondError(c) == RespondErrorUpTo(c, MaxCalls)

\* 2xx response to the re-sent request of call c
RetryOk(c) ==
  /\ calls[c].st = "retry"
  /\ IF IssuesToken(c)
     THEN /\ issued <= MaxTokens
          /\ \E t \in {issued + 1, -(issued + 1)} :
               Commit(CallerResult([State EXCEPT !.issued = issued + 1],
                                   c, OkResult(t)))
     ELSE Commit(CallerResult(State, c, OkResult(0)))

\* error response to the re-sent request of call c
RetryError(c) ==
  /\ calls[c].st = "retry"
  /\ \E e \in ErrorStatuses : Commit(retryError(State, c, e))

\* The request coordinator alone: a restored session, application requests
\* and their responses (no timer, guard, login or logout by the user).
InitCoordinator ==
  /\ StartIn(initializeAuth(StoredAtStart(1, FALSE)))
  /\ EmptyQueue
  /\ ServerIdle

CoordApiRequest == ApiRequestUpTo(MaxCoordCalls)
CoordRespondError(c) == RespondErrorUpTo(c, MaxCoordCalls)

NextCoordinator ==
  \/ CoordApiRequest
  \/ \E c \in CallIds : RespondOk(c)
  \/ \E c \in CallIds : CoordRespondError(c)
  \/ \E c \in CallIds : RetryOk(c)
  \/ \E c \in CallIds : RetryError(c)

SpecCoordinator == InitCoordinator /\ [][NextCoordinator]_vars


\* ---------------------------------------------------------- UploadService

MAX_CONCURRENT_UPLOADS == 3
MAX_FILE_SIZE == 100 * 1024 * 1024

\* ALLOWED_FILE_TYPES, as sequences of characters
ALLOWED_FILE_TYPES ==
  {<<"p", "d", "f">>, <<"d", "o", "c", "x">>, <<"t", "x", "t">>}

\* String.prototype.toLowerCase on the characters file names are built from
LowerChar(ch) ==
  CASE ch = "P" -> "p" [] ch = "D" -> "d" [] ch = "F" -> "f"
    [] ch = "E" -> "e" [] ch = "X" -> "x" [] OTHER -> ch

toLowerCase(str) == [i \in 1..Len(str) |-> LowerChar(str[i])]

\* name.split('.').pop(): what follows the last dot, the whole name when it
\* holds no dot
RECURSIVE LastSegment(_)
LastSegment(name) ==
  IF name = <<>> THEN <<>>
  ELSE IF name[Len(name)] = "." THEN <<>>
  ELSE LET rest == LastSegment(SubSeq(name, 1, Len(name) - 1)) IN
       Append(rest, name[Len(name)])

\* validateFile(file): the first rule that fails decides the message
validateFile(file) ==
  IF file.size > MAX_FILE_SIZE
  THEN [isValid |-> FALSE, error |-> "size"]
  ELSE LET fileExtension == toLowerCase(LastSegment(file.name)) IN
       IF fileExtension = <<>> \/ fileExtension \notin ALLOWED_FILE_TYPES
       THEN [isValid |-> FALSE, error |-> "type"]
       ELSE IF Len(file.name) > 255
       THEN [isValid |-> FALSE, error |-> "nameLength"]
       ELSE [isValid |-> TRUE, error |-> "none"]

\* a file name of 256 characters ending in .txt
LongName == [i \in 1..252 |-> "n"] \o <<".", "t", "x", "t">>

\* The files a user can pick in this model (File.name, File.size, File.type).
Candidates ==
  << [name |-> <<"a", ".", "p", "d", "f">>, size |-> 1024,
      type |-> "application/pdf"],
     [name |-> <<"b", ".", "p", "d", "f">>, size |-> MAX_FILE_SIZE + 1,
      type |-> "application/pdf"],
     [name |-> <<"c", ".", "e", "x", "e">>, size |-> 1024,
      type |-> "application/x-msdownload"],
     [name |-> <<"d", ".", "e", "x", "e">>, size |-> MAX_FILE_SIZE + 1,
      type |-> "application/x-msdownload"],
     [name |-> <<"p", "d", "f">>, size |-> 1024,
      type |-> "application/pdf"],
     [name |-> <<"e", ".", "P", "D", "F">>, size |-> MAX_FILE_SIZE,
      type |-> "application/x-msdownload"],
     [name |-> LongName, size |-> 1024, type |-> "text/plain"],
     [name |-> <<"f", ".">>, size |-> 1024, type |-> "text/plain"] >>

\* The selections a user hands to addFilesToQueue, as indices into
\* Candidates: in SpecUpload and SpecSession (accepted files only) ...
Batches == {<<1>>, <<1, 1>>}

\* ... and in SpecValidate (every candidate alone, and mixed selections)
ValidateBatches ==
  {<<i>> : i \in 1..Len(Candidates)}
    \cup {<<1, 2>>, <<3, 1>>, <<4, 6>>, <<5, 1>>}

UploadState ==
  [files |-> files, activeUploads |-> activeUploads, inflight |-> inflight,
   nextId |-> nextId, lastDecrements |-> lastDecrements,
   removedBy |-> removedBy, lastStarted |-> lastStarted,
   retried |-> retried, lastOutcome |-> lastOutcome,
   uploadCompleteEmits |-> uploadCompleteEmits,
   offered |-> offered, returned |-> returned, alerted |-> alerted]

CommitUpload(U) ==
  /\ files' = U.files
  /\ activeUploads' = U.activeUploads
  /\ inflight' = U.inflight
  /\ nextId' = U.nextId
  /\ lastDecrements' = U.lastDecrements
  /\ removedBy' = U.removedBy
  /\ lastStarted' = U.lastStarted
  /\ retried' = U.retried
  /\ lastOutcome' = U.lastOutcome
  /\ uploadCompleteEmits' = U.uploadCompleteEmits
  /\ offered' = U.offered
  /\ returned' = U.returned
  /\ alerted' = U.alerted

\* queue.files.findIndex(f => f.id === fileId); 0 when there is none
FindIndex(fs, fileId) ==
  IF \E i \in 1..Len(fs) : fs[i].id = fileId
  THEN CHOOSE i \in 1..Len(fs) :
         fs[i].id = fileId /\ \A j \in 1..(i - 1) : fs[j].id # fileId
  ELSE 0

\* updateFileStatus(fileId, status, error): error || the task's error
updateFileStatus(U, fileId, status, error) ==
  LET i == FindIndex(U.files, fileId) IN
  IF i = 0 THEN U
  ELSE [U EXCEPT !.files[i].status = status,
                 !.files[i].error = IF error # "none" THEN error ELSE @]

\* updateFileProgress(fileId, progress)
updateFileProgress(U, fileId, progress) ==
  LET i == FindIndex(U.files, fileId) IN
  IF i = 0 THEN U ELSE [U EXCEPT !.files[i].progress = progress]

\* removeFromQueue(fileId)
removeFromQueue(U, fileId) ==
  [U EXCEPT !.files = SelectSeq(U.files, LAMBDA f : f.id # fileId)]

incrementActiveUploads(U) ==
  [U EXCEPT !.activeUploads = U.activeUploads + 1]

\* decrementActiveUploads(): Math.max(0, activeUploads - 1)
decrementActiveUploads(U) ==
  [U EXCEPT !.activeUploads = IF U.activeUploads > 0
                              THEN U.activeUploads - 1 ELSE 0,
            !.lastDecrements = U.lastDecrements + 1]

\* startSingleUpload(fileUpload): every task carries its File object, so the
\* status becomes uploading, the counter is incremented, the request is sent
startSingleUpload(U, fileId) ==
  LET U1 == incrementActiveUploads(
              updateFileStatus(U, fileId, "uploading", "none")) IN
  [U1 EXCEPT !.inflight[fileId] = @ + 1]

RECURSIVE StartEach(_, _)
\* filesToStart.forEach(startSingleUpload)
StartEach(U, ids) ==
  IF ids = <<>> THEN U
  ELSE StartEach([startSingleUpload(U, Head(ids))
                    EXCEPT !.lastStarted = Append(@, Head(ids))],
                 Tail(ids))

IdsOf(fs) == [i \in 1..Len(fs) |-> fs[i].id]

\* (mutant) the slice takes the most recently queued pending tasks
processUploadQueueNewestFirst(U) ==
  LET pendingFiles == SelectSeq(U.files, LAMBDA f : f.status = "pending")
      canStartMore == MAX_CONCURRENT_UPLOADS - U.activeUploads
  IN
  IF canStartMore > 0 /\ Len(pendingFiles) > 0
  THEN StartEach(U, IdsOf(SubSeq(pendingFiles,
                                 IF canStartMore < Len(pendingFiles)
                                 THEN Len(pendingFiles) - canStartMore + 1
                                 ELSE 1,
                                 Len(pendingFiles))))
  ELSE U

\* processUploadQueue(): both the pending list and the free slots are read
\* once, before any upload is started
processUploadQueue(U) ==
  LET pendingFiles == SelectSeq(U.files, LAMBDA f : f.status = "pending")
      canStartMore == MAX_CONCURRENT_UPLOADS - U.activeUploads
  IN
  IF canStartMore > 0 /\ Len(pendingFiles) > 0
  THEN StartEach(U, IdsOf(SubSeq(pendingFiles, 1,
                                 IF canStartMore < Len(pendingFiles)
                                 THEN canStartMore ELSE Len(pendingFiles))))
  ELSE U

\* handleUploadError(fileId, error), the catchError of the upload request
handleUploadError(U, fileId, msg) ==
  processUploadQueue(
    decrementActiveUploads(updateFileStatus(U, fileId, "failed", msg)))

\* the subscribe handlers of the upload request of task fileId
\*   next, HttpResponse with successCount > 0
nextSuccess(U, fileId) ==
  LET U1 == updateFileStatus(U, fileId, "success", "none")
      U2 == [U1 EXCEPT !.uploadCompleteEmits = @ + 1]
  IN processUploadQueue(decrementActiveUploads(U2))

\* (mutant) the server-reported reason is dropped for the default text
nextFailedDefaultReason(U, fileId, reason) ==
  processUploadQueue(
    decrementActiveUploads(
      updateFileStatus(U, fileId, "failed", "Upload failed")))

\*   next, HttpResponse with successCount = 0
nextFailed(U, fileId, reason) ==
  processUploadQueue(
    decrementActiveUploads(updateFileStatus(U, fileId, "failed", reason)))

\*   error
subscribeError(U, fileId, msg) ==
  processUploadQueue(
    decrementActiveUploads(updateFileStatus(U, fileId, "failed", msg)))

\* A transport error reaches catchError(handleUploadError), which rethrows it
\* to the error handler of subscribe.
transportError(U, fileId, msg) ==
  subscribeError(handleUploadError(U, fileId, msg), fileId, msg)


\* -------------------------------------------------- UploadService actions

\* the state a step starts from (the per-step records are cleared)
Before ==
  [UploadState EXCEPT !.lastDecrements = 0, !.lastStarted = <<>>,
                      !.retried = 0, !.lastOutcome = NoOutcome,
                      !.uploadCompleteEmits = 0,
                      !.offered = <<>>, !.returned = <<>>,
                      !.alerted = <<>>]

RECURSIVE ValidFiles(_, _, _)
\* the forEach of addFilesToQueue: the accepted candidates, in input order,
\* each with a fresh id, status pending and progress 0
ValidFiles(batch, i, id) ==
  IF i > Len(batch) THEN <<>>
  ELSE IF validateFile(Candidates[batch[i]]).isValid
  THEN <<[id |-> id, cand |-> batch[i], status |-> "pending",
          progress |-> 0, error |-> "none"]>>
       \o ValidFiles(batch, i + 1, id + 1)
  ELSE ValidFiles(batch, i + 1, id)

RECURSIVE Errors(_, _)
\* the errors array of addFilesToQueue: one entry per rejected candidate,
\* holding the file and the message validateFile gave
Errors(batch, i) ==
  IF i > Len(batch) THEN <<>>
  ELSE IF validateFile(Candidates[batch[i]]).isValid
  THEN Errors(batch, i + 1)
  ELSE <<[cand |-> batch[i],
          error |-> validateFile(Candidates[batch[i]]).error]>>
       \o Errors(batch, i + 1)

\* (mutant) the accepted files are put in front of the queue
addFilesToQueueInFront(U, batch) ==
  LET validFiles == ValidFiles(batch, 1, U.nextId) IN
  [U EXCEPT !.files = validFiles \o U.files,
            !.nextId = U.nextId + Len(validFiles),
            !.offered = batch,
            !.returned = validFiles,
            !.alerted = Errors(batch, 1)]

\* addFilesToQueue(files): the rejections are alerted, the accepted files
\* are appended and returned; nothing is started
addFilesToQueue(U, batch) ==
  LET validFiles == ValidFiles(batch, 1, U.nextId) IN
  [U EXCEPT !.files = U.files \o validFiles,
            !.nextId = U.nextId + Len(validFiles),
            !.offered = batch,
            !.returned = validFiles,
            !.alerted = Errors(batch, 1)]

AddFilesFrom(batches, n) ==
  \E batch \in batches :
    /\ nextId + Len(ValidFiles(batch, 1, nextId)) - 1 <= n
    /\ UNCHANGED <<authVars, serverVars>>
    /\ CommitUpload(addFilesToQueue(Before, batch))

AddFilesToQueue == AddFilesFrom(Batches, MaxFiles)

\* startAllUploads()
StartAllUploads ==
  /\ UNCHANGED <<authVars, serverVars>>
  /\ CommitUpload(processUploadQueue(Before))

\* (mutant) the task is started whatever its status
startUploadByIdAnyStatus(U, fileId) ==
  IF FindIndex(U.files, fileId) # 0
  THEN startSingleUpload(U, fileId)
  ELSE U

\* startUploadById(fileId)
startUploadById(U, fileId) ==
  IF \E i \in 1..Len(U.files) :
       U.files[i].id = fileId /\ U.files[i].status = "pending"
  THEN startSingleUpload(U, fileId)
  ELSE U

StartUploadById == \E fileId \in TaskIds :
  /\ UNCHANGED <<authVars, serverVars>>
  /\ CommitUpload(startUploadById(Before, fileId))

\* cancelUpload(fileId)
cancelUpload(U, fileId) ==
  LET U1 == removeFromQueue(U, fileId) IN
  [U1 EXCEPT !.removedBy[fileId] =
               IF FindIndex(U.files, fileId) # 0 THEN "cancel" ELSE @]

CancelUpload == \E fileId \in TaskIds :
  /\ UNCHANGED <<authVars, serverVars>>
  /\ CommitUpload(cancelUpload(Before, fileId))

\* cancelAllUploads(): the tasks are marked failed and then the queue is
\* replaced by an empty one with activeUploads 0
cancelAllUploads(U) ==
  [U EXCEPT !.files = <<>>,
            !.activeUploads = 0,
            !.removedBy = [i \in DOMAIN U.removedBy |->
                             IF FindIndex(U.files, i) # 0 THEN "cancelAll"
                             ELSE U.removedBy[i]]]

CancelAllUploads ==
  /\ UNCHANGED <<authVars, serverVars>>
  /\ CommitUpload(cancelAllUploads(Before))

\* (mutant) the status of the task is not looked at
retryUploadAnyStatus(U, fileId) ==
  LET i == FindIndex(U.files, fileId) IN
  IF i # 0
  THEN processUploadQueue([U EXCEPT !.files[i].status = "pending",
                                    !.files[i].progress = 0,
                                    !.files[i].error = "none",
                                    !.retried = fileId])
  ELSE U

\* retryUpload(fileId)
retryUpload(U, fileId) ==
  LET i == FindIndex(U.files, fileId) IN
  IF i # 0 /\ U.files[i].status = "failed"
  THEN processUploadQueue([U EXCEPT !.files[i].status = "pending",
                                    !.files[i].progress = 0,
                                    !.files[i].error = "none",
                                    !.retried = fileId])
  ELSE U

RetryUpload == \E fileId \in TaskIds :
  /\ UNCHANGED <<authVars, serverVars>>
  /\ CommitUpload(retryUpload(Before, fileId))

\* (mutant) only pending tasks are kept
clearCompletedUploadsKeepsPending(U) ==
  [U EXCEPT !.files = SelectSeq(U.files, LAMBDA f : f.status = "pending"),
            !.removedBy = [i \in DOMAIN U.removedBy |->
                             IF /\ FindIndex(U.files, i) # 0
                                /\ U.files[FindIndex(U.files, i)].status
                                     \in {"success", "failed"}
                             THEN "clear" ELSE U.removedBy[i]]]

\* clearCompletedUploads()
clearCompletedUploads(U) ==
  [U EXCEPT !.files = SelectSeq(U.files, LAMBDA f :
                        f.status = "pending" \/ f.status = "uploading"),
            !.removedBy = [i \in DOMAIN U.removedBy |->
                             IF /\ FindIndex(U.files, i) # 0
                                /\ U.files[FindIndex(U.files, i)].status
                                     \in {"success", "failed"}
                             THEN "clear" ELSE U.removedBy[i]]]

ClearCompletedUploads ==
  /\ UNCHANGED <<authVars, serverVars>>
  /\ CommitUpload(clearCompletedUploads(Before))

ProgressValues == {50}

\* an UploadProgress event of the request of task fileId
UploadProgress == \E fileId \in TaskIds : \E p \in ProgressValues :
  /\ inflight[fileId] > 0
  /\ UNCHANGED <<authVars, serverVars>>
  /\ CommitUpload(updateFileProgress(Before, fileId, p))

\* the request of task fileId has completed and leaves the network
Settled(U, fileId) == [U EXCEPT !.inflight[fileId] = @ - 1]

\* ... with this outcome: the server reports the file stored ("success"),
\* reports it failed with results.failed[0].error or the default text
\* ("failed"), or the request fails with an error carrying a message
\* ("transport")
Reported(U, fileId, kind, error) ==
  [Settled(U, fileId) EXCEPT !.lastOutcome = [kind |-> kind, error |-> error]]

\* the response reports the file as stored
CompleteSuccess == \E fileId \in TaskIds :
  /\ inflight[fileId] > 0
  /\ UNCHANGED <<authVars, serverVars>>
  /\ CommitUpload(nextSuccess(Reported(Before, fileId, "success", "none"),
                              fileId))

\* the response reports the file as failed, with or without a reason
CompleteFailed == \E fileId \in TaskIds :
  /\ inflight[fileId] > 0
  /\ UNCHANGED <<authVars, serverVars>>
  /\ \E reason \in {"serverReason", "Upload failed"} :
       CommitUpload(nextFailed(Reported(Before, fileId, "failed", reason),
                               fileId, reason))

\* the request fails (network failure, non-2xx)
CompleteTransportError == \E fileId \in TaskIds :
  /\ inflight[fileId] > 0
  /\ UNCHANGED <<authVars, serverVars>>
  /\ CommitUpload(transportError(
                    Reported(Before, fileId, "transport", "transportMessage"),
                    fileId, "transportMessage"))

\* UploadComponent.logout: uploadService.cancelAllUploads(), then
\* authService.logout()
UserLogout ==
  /\ storeAccess # 0 \/ storeRefresh # 0
  /\ CommitUpload(cancelAllUploads(Before))
  /\ CommitAuth(logout(State))
  /\ UNCHANGED serverVars

\* The answer to a POST /auth/logout: the request carried no bearer token, so
\* an error passes the interceptor unchanged; both subscribe handlers of
\* logout() only log.
RevocationAnswered ==
  /\ revocations > 0
  /\ \E status \in {"ok"} \cup ErrorStatuses :
       Commit([State EXCEPT !.revocations = @ - 1])

\* localStorage is shared by every tab of the origin: another instance of the
\* application logs out and its clearTokens() empties the store under this
\* instance, whose subjects and timer are untouched.
StorageClearedElsewhere ==
  /\ storeAccess # 0
  /\ Commit(clearTokens(State))

\* ------------------------------------------- the expiry arithmetic (ms)

\* payload.exp values (seconds) of the access tokens the server issues
ExpSeconds == {1, 2, 121, 122, 123, 500}

\* the Date.now() readings (ms) at which something happens
ClockReadings == {0, 1000, 1001, 2000, 120000, 121000, 122000, 300000}

\* an access_token value: one whose payload decodes, with its exp, or one
\* for which JSON.parse(atob(token.split('.')[1])) throws
Jwt(e) == [kind |-> "jwt", exp |-> e]
Garbage == [kind |-> "garbage", exp |-> 0]

Max(a, b) == IF a > b THEN a ELSE b

\* const expiryTime = payload.exp * 1000
expiryTime(token) == token.exp * 1000

\* (mutant) a token is still good at the instant of its exp
tokenExpiredAfterExp(token, currentTime) ==
  IF token.kind = "jwt" THEN currentTime > expiryTime(token) ELSE TRUE

\* isTokenExpired(token) at Date.now() = currentTime
tokenExpired(token, currentTime) ==
  IF token.kind = "jwt" THEN currentTime >= expiryTime(token) ELSE TRUE

\* isAuthenticated(): !!token && !this.isTokenExpired(token)
authenticatedAt(token, currentTime) ==
  token.kind # "none" /\ ~tokenExpired(token, currentTime)

\* (mutant) the delay is not clamped at zero
refreshTimeUnclamped(token, currentTime) ==
  (expiryTime(token) - currentTime) - (2 * 60 * 1000)

\* const refreshTime = Math.max(0, timeUntilExpiry - (2 * 60 * 1000))
refreshTime(token, currentTime) ==
  LET timeUntilExpiry == expiryTime(token) - currentTime IN
  Max(0, timeUntilExpiry - (2 * 60 * 1000))

ClockState ==
  [now |-> clockNow, jwt |-> accessJwt, timerDue |-> timerDue,
   answer |-> "none"]

CommitClock(K) ==
  /\ clockNow' = K.now
  /\ accessJwt' = K.jwt
  /\ timerDue' = K.timerDue
  /\ lastAnswer' = K.answer

\* logout(): the token is removed and the pending timer cleared
logoutAt(K) == [K EXCEPT !.jwt = NoJwt, !.timerDue = -1]

\* scheduleTokenRefresh(): setTimeout(..., refreshTime) replaces the pending
\* timer; a token that does not decode forces logout
scheduleTokenRefreshAt(K) ==
  IF K.jwt.kind = "none" THEN K
  ELSE IF K.jwt.kind = "jwt"
  THEN [K EXCEPT !.timerDue = K.now + refreshTime(K.jwt, K.now)]
  ELSE logoutAt(K)

\* handleAuthSuccess(response)
handleAuthSuccessAt(K, token) ==
  scheduleTokenRefreshAt([K EXCEPT !.jwt = token])

\* localStorage at page load holds any access_token, with or without
\* user_data; initializeAuth() schedules only when both are there
InitClock ==
  /\ StartSessionIn(StoredAtStart(0, FALSE))
  /\ EmptyQueue
  /\ ServerIdle
  /\ \E token \in {NoJwt, Garbage} \cup {Jwt(e) : e \in ExpSeconds} :
     \E userData \in BOOLEAN :
     \E t \in {0, 1000} :
       LET K0 == [now |-> t, jwt |-> token, timerDue |-> -1,
                  answer |-> "none"]
           K == IF token.kind # "none" /\ userData
                THEN scheduleTokenRefreshAt(K0) ELSE K0
       IN /\ clockNow = K.now
          /\ accessJwt = K.jwt
          /\ timerDue = K.timerDue
          /\ lastAnswer = K.answer

\* time passes
ClockAdvances == \E t \in ClockReadings :
  /\ t > clockNow
  /\ UNCHANGED <<sessionVars, uploadVars, serverVars>>
  /\ CommitClock([ClockState EXCEPT !.now = t])

\* someone (the guard, a component) calls isAuthenticated()
IsAuthenticatedCall ==
  /\ UNCHANGED <<sessionVars, uploadVars, serverVars>>
  /\ CommitClock([ClockState EXCEPT
                    !.answer = IF authenticatedAt(accessJwt, clockNow)
                               THEN "true" ELSE "false"])

\* a 2xx login or refresh response carrying an access token
AuthSuccessAt ==
  \E token \in {Garbage} \cup {Jwt(e) : e \in ExpSeconds} :
    /\ UNCHANGED <<sessionVars, uploadVars, serverVars>>
    /\ CommitClock(handleAuthSuccessAt(ClockState, token))

\* the pending timer is due and its callback runs
TimerDue ==
  /\ timerDue >= 0
  /\ clockNow >= timerDue
  /\ UNCHANGED <<sessionVars, uploadVars, serverVars>>
  /\ CommitClock([ClockState EXCEPT !.timerDue = -1])

\* logout()
LogoutAt ==
  /\ accessJwt.kind # "none"
  /\ UNCHANGED <<sessionVars, uploadVars, serverVars>>
  /\ CommitClock(logoutAt(ClockState))

NextClock ==
  \/ ClockAdvances
  \/ IsAuthenticatedCall
  \/ AuthSuccessAt
  \/ TimerDue
  \/ LogoutAt

SpecClock == InitClock /\ [][NextClock]_vars

\* ------------------------------------------------------- specifications

NextAuth ==
  \/ Login
  \/ ApiRequest
  \/ TimerFire
  \/ GuardCheck
  \/ UserLogout
  \/ ClockPassesExp
  \/ RevocationAnswered
  \/ \E c \in CallIds : RespondOk(c)
  \/ \E c \in CallIds : RespondError(c)
  \/ \E c \in CallIds : RetryOk(c)
  \/ \E c \in CallIds : RetryError(c)

SpecAuth == InitAuth /\ [][NextAuth]_vars

\* SpecAuth in a browser where a second tab of the application is open
NextSharedStore ==
  \/ NextAuth
  \/ StorageClearedElsewhere

SpecSharedStore == InitAuth /\ [][NextSharedStore]_vars

InitUpload ==
  /\ StartIn(StoredAtStart(0, FALSE))
  /\ EmptyQueue
  /\ ServerIdle

NextUpload ==
  \/ AddFilesToQueue
  \/ StartAllUploads
  \/ StartUploadById
  \/ CancelUpload
  \/ CancelAllUploads
  \/ RetryUpload
  \/ ClearCompletedUploads
  \/ UploadProgress
  \/ CompleteSuccess
  \/ CompleteFailed
  \/ CompleteTransportError

SpecUpload == InitUpload /\ [][NextUpload]_vars

\* Admission alone: files are offered to addFilesToQueue, the queue is reset.
ValidateAddFiles == AddFilesFrom(ValidateBatches, MaxValidateFiles)

NextValidate ==
  \/ ValidateAddFiles
  \/ CancelAllUploads

SpecValidate == InitUpload /\ [][NextValidate]_vars

\* Scheduling alone: tasks are queued, started one by one or all together,
\* cancelled, and their requests complete with success.
BackfillAddFiles == AddFilesFrom(Batches, MaxBackfillFiles)

NextBackfill ==
  \/ BackfillAddFiles
  \/ StartAllUploads
  \/ StartUploadById
  \/ CancelUpload
  \/ CompleteSuccess

SpecBackfill == InitUpload /\ [][NextBackfill]_vars

\* The upload page of a restored session: files are queued and uploaded while
\* the proactive refresh runs and the user may log out.
SessionAddFiles == AddFilesFrom(Batches, MaxSessionFiles)

NextSession ==
  \/ SessionAddFiles
  \/ StartAllUploads
  \/ CompleteSuccess
  \/ ApiRequest
  \/ TimerFire
  \/ UserLogout
  \/ \E c \in CallIds : RespondOk(c)
  \/ \E c \in CallIds : RespondError(c)
  \/ \E c \in CallIds : RetryOk(c)
  \/ \E c \in CallIds : RetryError(c)

SpecSession == InitCoordinator /\ [][NextSession]_vars

\* ------------------------------------------------- backend: AuthService
\* Node runs one callback at a time: an action below is a request handler up
\* to its first await that yields to other requests, or the continuation
\* after such an await.

\* jwtExpiresIn '15m' and jwtRefreshExpiresIn '7d', in seconds
AccessLifetime == 900
RefreshLifetime == 604800

\* the seconds at which the server is observed
ServerSeconds == {0, 1, AccessLifetime, RefreshLifetime}

Usernames == {"admin", "ann", "bob"}
NewUsernames == {"ann", "bob"}
NewEmails == {"a@x", "b@x"}

\* Math.max() of no numbers is -Infinity, and so is -Infinity + 1
MinusInfinity == -1
\* JSON writes -Infinity as null: the id claim in a token of such a user
JsonNull == -2

jsonId(id) == IF id = MinusInfinity THEN JsonNull ELSE id

AdminUser ==
  [id |-> 1, username |-> "admin", email |-> "admin@x", role |-> "admin"]

\* loadUsers(): the users of data/users.json, or none if it cannot be read
UsersFile == {<<>>, <<AdminUser>>}

\* a token whose signature is not the server's
Forged ==
  [typ |-> "forged", id |-> 0, username |-> "", email |-> "", role |-> "",
   iat |-> 0]

\* the backend AuthService and what the auth routes answered, as one value
ServerAuth ==
  [users |-> users, refreshTokens |-> refreshTokens, now |-> serverNow,
   signups |-> signups, handedOut |-> handedOut, revoked |-> revoked,
   signedUp |-> signedUp, reply |-> NoReply]

CommitServerAuth(A) ==
  /\ users' = A.users
  /\ refreshTokens' = A.refreshTokens
  /\ serverNow' = A.now
  /\ signups' = A.signups
  /\ handedOut' = A.handedOut
  /\ revoked' = A.revoked
  /\ signedUp' = A.signedUp
  /\ lastReply' = A.reply

\* Array.from(this.users.values()).find(test), given the places of the
\* users that pass the test: the first of them in the Map's order, or 0
FindUser(hits) ==
  IF hits = {} THEN 0 ELSE CHOOSE i \in hits : \A j \in hits : i <= j

\* this.users.has(username)
usersHas(U, username) == \E i \in DOMAIN U : U[i].username = username

\* this.users.set(username, user): a Map keeps the place of a key it has
usersSet(U, user) ==
  IF usersHas(U, user.username)
  THEN [i \in DOMAIN U |->
          IF U[i].username = user.username THEN user ELSE U[i]]
  ELSE Append(U, user)

\* jwt.sign(payload, secret, {expiresIn, issuer, subject}): the token is a
\* function of the payload and of iat, the second of signing
generateAccessToken(user, now) ==
  [typ |-> "access", id |-> jsonId(user.id), username |-> user.username,
   email |-> user.email, role |-> user.role, iat |-> now]

\* the payload of generateRefreshToken; the caller adds it to the store
signRefreshToken(user, now) ==
  [typ |-> "refresh", id |-> jsonId(user.id), username |-> user.username,
   email |-> "none", role |-> "none", iat |-> now]

\* generateRefreshToken(user)
generateRefreshToken(A, user) ==
  [A EXCEPT !.refreshTokens = @ \cup {signRefreshToken(user, A.now)}]

Claims(t) ==
  [id |-> t.id, username |-> t.username, email |-> t.email, role |-> t.role]

\* (mutant) the exp claim is not looked at
verifyAccessTokenIgnoringExp(A, t) ==
  IF t.typ = "access" THEN Claims(t) ELSE NoClaims

\* verifyAccessToken(token): jwt.verify with jwtSecret, null on any error
verifyAccessToken(A, t) ==
  IF t.typ = "access" /\ A.now < t.iat + AccessLifetime
  THEN Claims(t) ELSE NoClaims

\* verifyRefreshToken(token)
verifyRefreshToken(A, t) ==
  IF t \notin A.refreshTokens THEN NoClaims
  ELSE IF t.typ = "refresh" /\ A.now < t.iat + RefreshLifetime
  THEN Claims(t) ELSE NoClaims

NoTokens == [ok |-> FALSE, accessToken |-> NoToken, refreshToken |-> NoToken]

\* refreshAccessToken(refreshToken)
refreshAccessToken(A, t) ==
  LET decoded == verifyRefreshToken(A, t) IN
  IF decoded = NoClaims THEN NoTokens
  ELSE LET i == FindUser({n \in DOMAIN A.users :
                              A.users[n].id = decoded.id})
       IN IF i = 0 THEN NoTokens
          ELSE [ok |-> TRUE,
                accessToken |-> generateAccessToken(A.users[i], A.now),
                refreshToken |-> t]

\* revokeRefreshToken(refreshToken): Set.delete
revokeRefreshToken(A, t) ==
  [A EXCEPT !.refreshTokens = @ \ {t},
            !.revoked = IF t \in A.refreshTokens THEN @ \cup {t} ELSE @]

\* what a client can put into a request: a token the server has sent, a
\* token of its own making, or nothing
Presentable == handedOut \cup {Forged, NoToken}

\* time passes on the server
ServerClockAdvances ==
  /\ \E t \in ServerSeconds :
       /\ t > serverNow
       /\ CommitServerAuth([ServerAuth EXCEPT !.now = t])
  /\ UNCHANGED <<authVars, uploadVars, serverFileVars>>

\* AuthController.login: POST /api/auth/login
LoginEndpoint ==
  /\ Cardinality(handedOut) + 2 <= MaxHandedOut
  /\ \E identifier \in Usernames : \E passwordOk \in BOOLEAN :
       LET A == ServerAuth
           i == FindUser({n \in DOMAIN A.users :
                            \/ A.users[n].username = identifier
                            \/ A.users[n].email = identifier})
       IN
       IF i = 0 \/ ~passwordOk
       THEN CommitServerAuth(
              [A EXCEPT !.reply = [NoReply EXCEPT !.endpoint = "login",
                                                  !.status = 401]])
       ELSE LET user == A.users[i]
                accessToken == generateAccessToken(user, A.now)
                A1 == generateRefreshToken(A, user)
                refreshTok == signRefreshToken(user, A.now)
            IN CommitServerAuth(
                 [A1 EXCEPT !.handedOut = @ \cup {accessToken, refreshTok},
                            !.reply = [NoReply EXCEPT
                                         !.endpoint = "login",
                                         !.status = 200,
                                         !.accessToken = accessToken,
                                         !.refreshToken = refreshTok]])
  /\ UNCHANGED <<authVars, uploadVars, serverFileVars>>

\* AuthController.refresh: POST /api/auth/refresh
RefreshEndpoint ==
  /\ Cardinality(handedOut) + 1 <= MaxHandedOut
  /\ \E t \in Presentable :
       LET A == ServerAuth
           tokens == refreshAccessToken(A, t)
       IN
       IF ~tokens.ok
       THEN CommitServerAuth(
              [A EXCEPT !.reply = [NoReply EXCEPT !.endpoint = "refresh",
                                                  !.status = 401,
                                                  !.presented = t]])
       ELSE CommitServerAuth(
              [A EXCEPT !.handedOut = @ \cup {tokens.accessToken},
                        !.reply = [NoReply EXCEPT
                                     !.endpoint = "refresh",
                                     !.status = 200,
                                     !.presented = t,
                                     !.accessToken = tokens.accessToken,
                                     !.refreshToken = tokens.refreshToken]])
  /\ UNCHANGED <<authVars, uploadVars, serverFileVars>>

\* AuthController.logout: POST /api/auth/logout
LogoutEndpoint ==
  /\ \E t \in Presentable :
       LET A == ServerAuth
           A1 == IF t # NoToken THEN revokeRefreshToken(A, t) ELSE A
       IN CommitServerAuth(
            [A1 EXCEPT !.reply = [NoReply EXCEPT !.endpoint = "logout",
                                                 !.status = 200,
                                                 !.presented = t]])
  /\ UNCHANGED <<authVars, uploadVars, serverFileVars>>

\* the Authorization headers of a request: none, a scheme alone, or a scheme
\* and a token
Headers ==
  {<<>>, <<"Bearer">>}
    \cup {<<scheme, t>> : scheme \in {"Bearer", "Basic"},
                          t \in handedOut \cup {Forged}}

\* authHeader && authHeader.split(' ')[1]
SecondField(header) == IF Len(header) >= 2 THEN header[2] ELSE NoToken

\* authenticateToken(req, res, next) in front of a handler that answers 200
authenticateToken(A, header) ==
  LET token == SecondField(header)
      decoded == verifyAccessToken(A, token)
  IN
  IF token = NoToken \/ decoded = NoClaims
  THEN [A EXCEPT !.reply = [NoReply EXCEPT !.endpoint = "protected",
                                           !.status = 401,
                                           !.header = header,
                                           !.presented = token]]
  ELSE [A EXCEPT !.reply = [NoReply EXCEPT !.endpoint = "protected",
                                           !.status = 200,
                                           !.header = header,
                                           !.presented = token,
                                           !.handlerRan = TRUE,
                                           !.reqUser = decoded]]

\* a request to a route behind authenticateToken
ProtectedEndpoint ==
  /\ \E header \in Headers :
       CommitServerAuth(authenticateToken(ServerAuth, header))
  /\ UNCHANGED <<authVars, uploadVars, serverFileVars>>

\* Math.max(...ids) + 1
newUserId(U) ==
  LET ids == {U[i].id : i \in DOMAIN U} \ {MinusInfinity} IN
  IF ids = {} THEN MinusInfinity
  ELSE 1 + CHOOSE m \in ids : \A n \in ids : n <= m

\* AuthController.signup and registerUser up to `await hashPassword`:
\* validation and the two uniqueness checks
SignupEndpoint(s) ==
  /\ signups[s].st = "free"
  /\ \A earlier \in SignupSlots : earlier < s => signups[earlier].st # "free"
  /\ \E username \in NewUsernames : \E email \in NewEmails :
     \E wellFormed \in BOOLEAN :
       LET A == ServerAuth
           refused == \/ ~wellFormed
                      \/ usersHas(A.users, username)
                      \/ FindUser({n \in DOMAIN A.users :
                                      A.users[n].email = email}) # 0
       IN
       IF refused
       THEN CommitServerAuth(
              [A EXCEPT !.signups[s] = [NoSignup EXCEPT !.st = "done"],
                        !.reply = [NoReply EXCEPT !.endpoint = "signup",
                                                  !.status = 400]])
       ELSE CommitServerAuth(
              [A EXCEPT !.signups[s] = [NoSignup EXCEPT
                                          !.st = "hashing",
                                          !.username = username,
                                          !.email = email]])
  /\ UNCHANGED <<authVars, uploadVars, serverFileVars>>

\* registerUser from the end of hashPassword to `await saveUsers`
registerUserStores(A, s) ==
  LET newUser == [id |-> newUserId(A.users),
                  username |-> A.signups[s].username,
                  email |-> A.signups[s].email, role |-> "user"]
  IN [A EXCEPT !.users = usersSet(@, newUser),
               !.signups[s].st = "saving",
               !.signups[s].user = newUser]

SignupHashed(s) ==
  /\ signups[s].st = "hashing"
  /\ CommitServerAuth(registerUserStores(ServerAuth, s))
  /\ UNCHANGED <<authVars, uploadVars, serverFileVars>>

\* saveUsers() has written the file: registerUser returns and signup answers
\* 201 with tokens for the new user
SignupSaved(s) ==
  /\ signups[s].st = "saving"
  /\ LET A == ServerAuth
         newUser == A.signups[s].user
         accessToken == generateAccessToken(newUser, A.now)
         refreshTok == signRefreshToken(newUser, A.now)
         A1 == generateRefreshToken(A, newUser)
     IN CommitServerAuth(
          [A1 EXCEPT !.signups[s].st = "done",
                     !.handedOut = @ \cup {accessToken, refreshTok},
                     !.signedUp = @ \cup {newUser},
                     !.reply = [NoReply EXCEPT
                                  !.endpoint = "signup",
                                  !.status = 201,
                                  !.accessToken = accessToken,
                                  !.refreshToken = refreshTok,
                                  !.reqUser = newUser]])
  /\ UNCHANGED <<authVars, uploadVars, serverFileVars>>

\* the client of the other specifications, idle
ClientIdle ==
  /\ StartIn(StoredAtStart(0, FALSE))
  /\ EmptyQueue

InitServerAuth ==
  /\ ClientIdle
  /\ ServerFilesIdle
  /\ \E file \in UsersFile : users = file
  /\ refreshTokens = {}
  /\ serverNow = 0
  /\ signups = [s \in SignupSlots |-> NoSignup]
  /\ handedOut = {}
  /\ revoked = {}
  /\ signedUp = {}
  /\ lastReply = NoReply

\* the token endpoints and the routes behind authenticateToken
NextServerAuth ==
  \/ ServerClockAdvances
  \/ LoginEndpoint
  \/ RefreshEndpoint
  \/ LogoutEndpoint
  \/ ProtectedEndpoint

SpecServerAuth == InitServerAuth /\ [][NextServerAuth]_vars

\* concurrent registrations
NextSignup ==
  \/ \E s \in SignupSlots : SignupEndpoint(s)
  \/ \E s \in SignupSlots : SignupHashed(s)
  \/ \E s \in SignupSlots : SignupSaved(s)

SpecSignup == InitServerAuth /\ [][NextSignup]_vars

\* ------------------------------------------------- backend: UploadService
\* The users of these routes are the req.user.id values authenticateToken
\* has let through.

\* this.maxConcurrentUploads: the size of a batch of processMultipleUploads
maxConcurrentUploads == 3

\* the backend UploadService and what the upload routes answered
ServerFiles ==
  [uploads |-> uploads, userUploads |-> userUploads, disk |-> disk,
   nextUuid |-> nextUuid, requests |-> uploadRequests,
   reply |-> NoFileReply]

CommitServerFiles(F) ==
  /\ uploads' = F.uploads
  /\ userUploads' = F.userUploads
  /\ disk' = F.disk
  /\ nextUuid' = F.nextUuid
  /\ uploadRequests' = F.requests
  /\ fileReply' = F.reply

\* results.failed.length === 0 ? 200 : results.successful.length === 0 ?
\* 400 : 207
responseStatus(successCount, failureCount) ==
  IF failureCount = 0 THEN 200
  ELSE IF successCount = 0 THEN 400
  ELSE 207

\* the files of a request that processMultipleUploads has not started yet
Waiting(req) == {i \in 1..req.total : req.saves[i] = "waiting"}

\* the next batch: up to maxConcurrentUploads files, in the order received
StartBatch(req) ==
  LET batch == {i \in Waiting(req) :
                  Cardinality({j \in Waiting(req) : j < i})
                    < maxConcurrentUploads}
  IN [req EXCEPT !.saves = [i \in DOMAIN req.saves |->
                              IF i \in batch THEN "saving"
                              ELSE req.saves[i]]]

\* files asked for by the requests received so far
Requested == LET RECURSIVE Sum(_)
                 Sum(R) == IF R = {} THEN 0
                           ELSE LET r == CHOOSE x \in R : TRUE
                                IN uploadRequests[r].total + Sum(R \ {r})
             IN Sum(UploadSlots)

\* UploadController.uploadFiles up to the first await of
\* processMultipleUploads: every file of the first batch is inside saveFile
UploadFilesUpTo(r, limit) ==
  /\ uploadRequests[r].st = "free"
  /\ \A earlier \in UploadSlots :
       earlier < r => uploadRequests[earlier].st # "free"
  /\ \E user \in UserIds : \E k \in 0..MaxRequestFiles :
       /\ Requested + k <= limit
       /\ LET F == ServerFiles IN
          IF k = 0
          THEN CommitServerFiles(
                 [F EXCEPT !.requests[r].st = "done",
                           !.reply = [NoFileReply EXCEPT
                                        !.endpoint = "upload",
                                        !.user = user,
                                        !.status = 400]])
          ELSE CommitServerFiles(
                 [F EXCEPT !.requests[r] =
                    StartBatch([NoUploadRequest EXCEPT
                                  !.st = "running",
                                  !.user = user,
                                  !.total = k,
                                  !.saves = [i \in 1..MaxRequestFiles |->
                                               IF i <= k THEN "waiting"
                                               ELSE "none"]])])
  /\ UNCHANGED <<authVars, uploadVars, serverAuthVars>>

UploadFilesEndpoint(r) == UploadFilesUpTo(r, MaxServerFiles)
OwnerUploadsFiles(r) == UploadFilesUpTo(r, MaxOwnedFiles)

\* saveFile(file, userId) after fs.writeFile and fs.stat: the file info gets
\* a fresh id and is stored
saveFile(F, r, i) ==
  LET id == F.nextUuid
      user == F.requests[r].user
  IN [F EXCEPT !.uploads[id] = [stored |-> TRUE, uploadedBy |-> user,
                                originalName |-> i],
               !.userUploads[user] = @ \cup {id},
               !.disk = @ \cup {id},
               !.nextUuid = @ + 1,
               !.requests[r].saves[i] = "ok",
               !.requests[r].successful =
                  Append(@, [id |-> id, originalName |-> i])]

\* saveFile threw: the catch of the batch promise records the file as failed
saveFailed(F, r, i) ==
  [F EXCEPT !.requests[r].saves[i] = "failed",
            !.requests[r].failed = Append(@, i)]

\* (mutant) a failed save ends the request: the files not yet saved are
\* dropped
settledStopsAtFailure(F, r) ==
  LET req == F.requests[r] IN
  IF \E i \in 1..req.total : req.saves[i] = "saving" THEN F
  ELSE IF Waiting(req) # {} /\ Len(req.failed) = 0
  THEN [F EXCEPT !.requests[r] = StartBatch(req)]
  ELSE [F EXCEPT !.requests[r] = [NoUploadRequest EXCEPT
                                    !.st = "done", !.total = req.total],
                 !.reply = [NoFileReply EXCEPT
                              !.endpoint = "upload",
                              !.user = req.user,
                              !.status = responseStatus(Len(req.successful),
                                                        Len(req.failed)),
                              !.successful = req.successful,
                              !.failed = req.failed,
                              !.total = req.total,
                              !.successCount = Len(req.successful),
                              !.failureCount = Len(req.failed)]]

\* after `await Promise.allSettled(batchPromises)`: the next batch, or the
\* response of uploadFiles
settled(F, r) ==
  LET req == F.requests[r] IN
  IF \E i \in 1..req.total : req.saves[i] = "saving" THEN F
  ELSE IF Waiting(req) # {}
  THEN [F EXCEPT !.requests[r] = StartBatch(req)]
  ELSE [F EXCEPT !.requests[r] = [NoUploadRequest EXCEPT
                                    !.st = "done", !.total = req.total],
                 !.reply = [NoFileReply EXCEPT
                              !.endpoint = "upload",
                              !.user = req.user,
                              !.status = responseStatus(Len(req.successful),
                                                        Len(req.failed)),
                              !.successful = req.successful,
                              !.failed = req.failed,
                              !.total = req.total,
                              !.successCount = Len(req.successful),
                              !.failureCount = Len(req.failed)]]

\* one saveFile of a running request settles
SaveSettles(r, i) ==
  /\ uploadRequests[r].st = "running"
  /\ uploadRequests[r].saves[i] = "saving"
  /\ \E saved \in BOOLEAN :
       CommitServerFiles(
         settled(IF saved THEN saveFile(ServerFiles, r, i)
                 ELSE saveFailed(ServerFiles, r, i), r))
  /\ UNCHANGED <<authVars, uploadVars, serverAuthVars>>

\* (mutant) the owner is not compared
getFileByIdOfAnyone(F, fileId, userId) ==
  IF ~F.uploads[fileId].stored
  THEN NoFile ELSE F.uploads[fileId]

\* getFileById(fileId, userId)
getFileById(F, fileId, userId) ==
  IF ~F.uploads[fileId].stored \/ F.uploads[fileId].uploadedBy # userId
  THEN NoFile ELSE F.uploads[fileId]

\* deleteFile(fileId, userId) with its result
deleteFile(F, fileId, userId) ==
  IF getFileById(F, fileId, userId) = NoFile
  THEN [ok |-> FALSE, F |-> F]
  ELSE [ok |-> TRUE,
        F |-> [F EXCEPT !.disk = @ \ {fileId},
                        !.uploads[fileId] = NoFile,
                        !.userUploads[userId] = @ \ {fileId}]]

\* the completed files of userUploads.get(userId), before search and paging
userFiles(F, userId) ==
  {id \in F.userUploads[userId] : F.uploads[id].stored}

\* UploadController.getFileInfo: GET /api/upload/files/:fileId
GetFileInfoEndpoint ==
  /\ \E user \in UserIds : \E fileId \in FileIds :
       LET F == ServerFiles
           file == getFileById(F, fileId, user)
       IN CommitServerFiles(
            [F EXCEPT !.reply = [NoFileReply EXCEPT
                                   !.endpoint = "info",
                                   !.user = user,
                                   !.fileIds = {fileId},
                                   !.status = IF file = NoFile THEN 404
                                              ELSE 200]])
  /\ UNCHANGED <<authVars, uploadVars, serverAuthVars>>

\* UploadController.downloadFile: GET /api/upload/download/:fileId
DownloadFileEndpoint ==
  /\ \E user \in UserIds : \E fileId \in FileIds :
       LET F == ServerFiles
           file == getFileById(F, fileId, user)
       IN CommitServerFiles(
            [F EXCEPT !.reply = [NoFileReply EXCEPT
                                   !.endpoint = "download",
                                   !.user = user,
                                   !.fileIds = {fileId},
                                   !.status =
                                      IF file = NoFile THEN 404
                                      ELSE IF fileId \notin F.disk THEN 404
                                      ELSE 200]])
  /\ UNCHANGED <<authVars, uploadVars, serverAuthVars>>

\* UploadController.deleteFile: DELETE /api/upload/files/:fileId
DeleteFileEndpoint ==
  /\ \E user \in UserIds : \E fileId \in FileIds :
       LET res == deleteFile(ServerFiles, fileId, user) IN
       CommitServerFiles(
         [res.F EXCEPT !.reply = [NoFileReply EXCEPT
                                    !.endpoint = "delete",
                                    !.user = user,
                                    !.fileIds = {fileId},
                                    !.status = IF res.ok THEN 200
                                               ELSE 404]])
  /\ UNCHANGED <<authVars, uploadVars, serverAuthVars>>

RECURSIVE bulkDelete(_, _, _, _)

\* the loop of bulkDeleteFiles over fileIds, with the lists it fills
bulkDelete(F, fileIds, userId, results) ==
  IF fileIds = <<>> THEN [F |-> F, results |-> results]
  ELSE LET res == deleteFile(F, Head(fileIds), userId) IN
       bulkDelete(res.F, Tail(fileIds), userId,
                  IF res.ok
                  THEN [results EXCEPT
                          !.successful = Append(@, Head(fileIds))]
                  ELSE [results EXCEPT
                          !.failed = Append(@, Head(fileIds))])

\* the fileIds arrays of a bulk delete request
IdLists ==
  {<<>>} \cup {<<a>> : a \in FileIds}
         \cup {<<a, b>> : a \in FileIds, b \in FileIds}

SeqToSet(q) == {q[i] : i \in DOMAIN q}

\* UploadController.bulkDeleteFiles: DELETE /api/upload/files
BulkDeleteEndpoint ==
  /\ \E user \in UserIds : \E fileIds \in IdLists :
       LET F == ServerFiles IN
       IF fileIds = <<>>
       THEN CommitServerFiles(
              [F EXCEPT !.reply = [NoFileReply EXCEPT !.endpoint = "bulk",
                                                      !.user = user,
                                                      !.status = 400]])
       ELSE LET res == bulkDelete(F, fileIds, user,
                                  [successful |-> <<>>, failed |-> <<>>])
            IN CommitServerFiles(
                 [res.F EXCEPT !.reply =
                    [NoFileReply EXCEPT
                       !.endpoint = "bulk",
                       !.user = user,
                       !.fileIds = SeqToSet(fileIds),
                       !.status =
                          responseStatus(Len(res.results.successful),
                                         Len(res.results.failed)),
                       !.successful = res.results.successful,
                       !.failed = res.results.failed,
                       !.total = Len(fileIds)]])
  /\ UNCHANGED <<authVars, uploadVars, serverAuthVars>>

\* UploadController.getUserFiles: GET /api/upload/files
GetUserFilesEndpoint ==
  /\ \E user \in UserIds :
       CommitServerFiles(
         [ServerFiles EXCEPT !.reply =
            [NoFileReply EXCEPT !.endpoint = "list",
                                !.user = user,
                                !.status = 200,
                                !.listed = userFiles(ServerFiles, user),
                                !.total =
                                   Cardinality(userFiles(ServerFiles,
                                                         user))]])
  /\ UNCHANGED <<authVars, uploadVars, serverAuthVars>>

\* UploadController.getUploadStats: GET /api/upload/stats
GetUploadStatsEndpoint ==
  /\ \E user \in UserIds :
       CommitServerFiles(
         [ServerFiles EXCEPT !.reply =
            [NoFileReply EXCEPT !.endpoint = "stats",
                                !.user = user,
                                !.status = 200,
                                !.listed = userFiles(ServerFiles, user),
                                !.total =
                                   Cardinality(userFiles(ServerFiles,
                                                         user))]])
  /\ UNCHANGED <<authVars, uploadVars, serverAuthVars>>

InitServerFiles ==
  /\ ClientIdle
  /\ ServerIdle

\* uploads alone, with requests of more files than a batch holds
NextServerUpload ==
  \/ \E r \in UploadSlots : UploadFilesEndpoint(r)
  \/ \E r \in UploadSlots : \E i \in 1..MaxRequestFiles : SaveSettles(r, i)

SpecServerUpload == InitServerFiles /\ [][NextServerUpload]_vars

\* the routes over stored files, with a few uploads by two users
NextServerFiles ==
  \/ \E r \in UploadSlots : OwnerUploadsFiles(r)
  \/ \E r \in UploadSlots : \E i \in 1..MaxRequestFiles : SaveSettles(r, i)
  \/ GetFileInfoEndpoint
  \/ DownloadFileEndpoint
  \/ DeleteFileEndpoint
  \/ BulkDeleteEndpoint
  \/ GetUserFilesEndpoint
  \/ GetUploadStatsEndpoint

SpecServerFiles == InitServerFiles /\ [][NextServerFiles]_vars


\* ================================================================= claims

IsRefresh(c) == calls[c].kind = "refresh"
IsCoordRefresh(c) == IsRefresh(c) /\ calls[c].origin = "coord"
OnTheWire(c) == calls[c].st \in {"inflight", "retry"}
Uploading == {i \in 1..Len(files) : files[i].status = "uploading"}
\* the upload request of task f completes in this step
Completes(f) == inflight'[f] < inflight[f]

\* C1: at most one refresh network call is in flight at any time, whoever
\* started it (coordinator, proactive timer or route guard).
C1_RefreshSingleFlight ==
  Cardinality({c \in CallIds : IsRefresh(c) /\ OnTheWire(c)}) <= 1

\* C2: requests sent with the same access token that each receive a 401 make
\* the coordinator issue one refresh call, whatever the order of the 401s and
\* the refresh response.
C2_OneRefreshPerExpiredToken ==
  \A c1, c2 \in CallIds :
    ( /\ IsCoordRefresh(c1) /\ IsCoordRefresh(c2)
      /\ calls[calls[c1].parent].tok = calls[calls[c2].parent].tok )
    => c1 = c2

\* C3: when a refresh started by the coordinator fails, every request waiting
\* behind it fails with the refresh error in the same step.
C3_WaitersFailWithRefreshError ==
  [][\A r \in CallIds :
       (IsCoordRefresh(r) /\ calls[r].st # "err" /\ calls'[r].st = "err")
       => \A w \in CallIds :
            calls[w].st = "waiting"
            => (calls'[w].st = "err" /\ calls'[w].err = calls'[r].err)]_vars

\* no request is sent more than twice; a request is re-sent only with the
\* access token of a coordinator refresh that succeeded; the request that
\* started a successful refresh has been re-sent with that refresh's token
C4_RetryInv ==
  /\ \A c \in CallIds :
       /\ calls[c].sends <= 2
       /\ calls[c].sends = 2 <=> calls[c].retryTok # 0
       /\ calls[c].retryTok # 0
            => \E r \in CallIds :
                 /\ IsCoordRefresh(r) /\ calls[r].st = "ok"
                 /\ calls[r].newTok = calls[c].retryTok
  /\ \A r \in CallIds :
       (IsCoordRefresh(r) /\ calls[r].st = "ok")
       => /\ calls[calls[r].parent].sends = 2
          /\ calls[calls[r].parent].retryTok = calls[r].newTok

\* the step in which a coordinator refresh succeeds re-sends every parked
\* request with the new token; the response to a re-sent request is final and
\* starts no call
C4_RetryStep ==
  /\ \A r \in CallIds :
       (IsCoordRefresh(r) /\ calls[r].st # "ok" /\ calls'[r].st = "ok")
       => \A w \in CallIds :
            calls[w].st = "waiting"
            => /\ calls'[w].st = "retry"
               /\ calls'[w].retryTok = calls'[r].newTok
               /\ calls'[w].sends = 2
  /\ \A c \in CallIds :
       calls[c].st = "retry"
       => /\ calls'[c].st \in {"retry", "ok", "err"}
          /\ calls'[c].sends = calls[c].sends
          /\ calls'[c].st # "retry" => nextCall' = nextCall

\* C4: when a coordinator refresh succeeds, the request that started it and
\* every request parked behind it are re-sent once with the access token of
\* the refresh response; no request is sent more than twice; the response to
\* a re-sent request (a 401 included) is final and starts no further refresh.
C4_RetriedExactlyOnce == []C4_RetryInv /\ [][C4_RetryStep]_vars

\* a refresh succeeded with one request parked behind it; both were re-sent
\* with the new token and the re-sent trigger was answered with an error
C4_Witness ==
  \E r, w \in CallIds :
    /\ IsCoordRefresh(r) /\ calls[r].st = "ok"
    /\ calls[w].path = "waiter" /\ calls[w].sends = 2
    /\ calls[w].retryTok = calls[r].newTok
    /\ calls[calls[r].parent].sends = 2
    /\ calls[calls[r].parent].retryTok = calls[r].newTok
    /\ calls[calls[r].parent].st = "err"

\* C5: a refresh call the endpoint answered with an error has delivered that
\* error to its caller with logout run, and no further refresh was started
\* for it.
C5_RefreshErrorEndsInLogout ==
  \A r \in CallIds :
    (IsRefresh(r) /\ calls[r].resp \in ErrorStatuses)
    => /\ calls[r].st = "err"
       /\ calls[r].loggedOut
       /\ ~\E r2 \in CallIds : IsRefresh(r2) /\ calls[r2].parent = r

\* C6: activeUploads never exceeds maxConcurrent.
C6_ActiveNeverExceedsMax == activeUploads <= MAX_CONCURRENT_UPLOADS

\* C7: activeUploads is non-negative and equals the number of tasks in the
\* queue whose status is uploading.
C7_ActiveEqualsUploading ==
  activeUploads >= 0 /\ activeUploads = Cardinality(Uploading)

\* C8: every completion of an upload request calls decrementActiveUploads
\* exactly once.
C8_OneDecrementPerCompletion ==
  [][(\E f \in TaskIds : Completes(f)) => lastDecrements' = 1]_vars

\* C9: the completion of the request of a task removed by cancelUpload
\* changes neither activeUploads nor the task list.
C9_CompletionAfterCancelIsNoOp ==
  [][\A f \in TaskIds :
       (Completes(f) /\ removedBy[f] = "cancel")
       => (activeUploads' = activeUploads /\ files' = files)]_vars

\* C10: the completion of a request that was in flight when cancelAllUploads
\* ran changes neither activeUploads nor any task, and the number of tasks
\* uploading never exceeds maxConcurrent through it.
C10_CompletionAfterCancelAllIsNoOp ==
  [][\A f \in TaskIds :
       (Completes(f) /\ removedBy[f] = "cancelAll")
       => /\ activeUploads' = activeUploads
          /\ files' = files
          /\ Cardinality(Uploading) <= MAX_CONCURRENT_UPLOADS]_vars

\* C11: the tasks processUploadQueue starts in a step are started in queue
\* order, and when the step is over no task that is still pending precedes a
\* task it started.
C11_StartsInQueueOrder ==
  /\ \A n \in 1..Len(lastStarted) :
       LET j == FindIndex(files, lastStarted[n]) IN
       /\ j # 0
       /\ \A k \in 1..(j - 1) : files[k].status # "pending"
  /\ \A m, n \in 1..Len(lastStarted) :
       m < n => FindIndex(files, lastStarted[m])
                  < FindIndex(files, lastStarted[n])

\* with more pending tasks than free slots, the earliest queued ones were
\* started and the latest one is still pending
C11_Witness ==
  /\ Len(lastStarted) = MAX_CONCURRENT_UPLOADS
  /\ \E k \in 1..Len(files) :
       /\ files[k].status = "pending"
       /\ \A n \in 1..Len(lastStarted) :
            FindIndex(files, lastStarted[n]) < k

Min(a, b) == IF a < b THEN a ELSE b
WithStatus(fs, status) == {i \in 1..Len(fs) : fs[i].status = status}

\* C12: a step in which addFilesToQueue accepts tasks while slots are free
\* moves min(slots, pending tasks) tasks from pending to uploading.
C12_AdmissionSchedules ==
  [][(returned' # <<>> /\ MAX_CONCURRENT_UPLOADS - activeUploads > 0)
     => Cardinality(WithStatus(files', "uploading"))
          = Cardinality(WithStatus(files, "uploading"))
            + Min(MAX_CONCURRENT_UPLOADS - activeUploads,
                  Cardinality(WithStatus(files, "pending"))
                    + Len(returned'))]_vars

\* the task with id f is in the queue with status uploading
IsUploading(f) ==
  FindIndex(files, f) # 0 /\ files[FindIndex(files, f)].status = "uploading"

\* C13: when the request of an uploading task completes while pending tasks
\* exist, the freed slot is refilled: afterwards the number of uploading
\* tasks is min(maxConcurrent, uploading + pending), and the task has settled
\* as success or failed.
C13_BackfillOnCompletion ==
  [][\A f \in TaskIds :
       (Completes(f) /\ IsUploading(f))
       => /\ files'[FindIndex(files, f)].status \in {"success", "failed"}
          /\ WithStatus(files, "pending") # {}
               => Cardinality(WithStatus(files', "uploading"))
                    = Min(MAX_CONCURRENT_UPLOADS,
                          Cardinality(WithStatus(files, "uploading")) - 1
                            + Cardinality(WithStatus(files, "pending")))]_vars

\* C14: the access token and the user become present only in the step in
\* which a login (or signup) call receives its successful response.
C14_AuthenticatedOnlyByLogin ==
  [][((storeAccess = 0 /\ storeAccess' # 0)
        \/ (currentUser = 0 /\ currentUser' # 0))
     => \E c \in CallIds :
          /\ calls[c].kind = "login"
          /\ calls[c].st # "ok"
          /\ calls'[c].st = "ok"]_vars

\* C15: the stored user record is present iff the access token is present,
\* and the published current user is non-null iff the access token is
\* present.
C15_UserIffAccessToken ==
  /\ storeUser # 0 <=> storeAccess # 0
  /\ currentUser # 0 <=> storeAccess # 0

\* a session that was logged out and then made present again by the response
\* of a refresh call
C15_Witness ==
  /\ navigatedToLogin
  /\ storeAccess # 0 /\ storeUser # 0 /\ currentUser # 0
  /\ \E c \in CallIds : IsRefresh(c) /\ calls[c].st = "ok"

\* C16: the step in which a failed refresh forces logout leaves the upload
\* queue with no tasks and activeUploads = 0.
C16_ForcedLogoutDrainsQueue ==
  [][(\E r \in CallIds :
        IsRefresh(r) /\ ~calls[r].loggedOut /\ calls'[r].loggedOut)
     => (files' = <<>> /\ activeUploads' = 0)]_vars

\* the name ends in a dot followed by an allowed extension, in any case
EndsInAllowedExtension(name) ==
  \E ext \in ALLOWED_FILE_TYPES :
    /\ Len(name) > Len(ext)
    /\ name[Len(name) - Len(ext)] = "."
    /\ toLowerCase(SubSeq(name, Len(name) - Len(ext) + 1, Len(name))) = ext

\* the rejection reasons a message of validateFile names
ReasonsIn(error) == {error}

\* C17: the message alerted for a rejected candidate that exceeds the size
\* limit and has a disallowed extension names both reasons.
C17_BothReasonsReported ==
  \A i \in 1..Len(alerted) :
    LET f == Candidates[alerted[i].cand] IN
    (f.size > MAX_FILE_SIZE /\ ~EndsInAllowedExtension(f.name))
    => {"size", "type"} \subseteq ReasonsIn(alerted[i].error)

\* C18: a call of addFilesToQueue leaves the tasks already queued as they
\* are and in their order, appends the accepted candidates in input order
\* with status pending and progress 0, lets no rejected candidate in, and
\* returns the appended tasks.
C18_AddAppendsAccepted ==
  [][offered' # <<>>
     => LET accepted ==
              SelectSeq(offered',
                        LAMBDA b : validateFile(Candidates[b]).isValid)
        IN
        /\ files' = files \o returned'
        /\ Len(files') = Len(files) + Len(accepted)
        /\ [j \in 1..Len(returned') |-> returned'[j].cand] = accepted
        /\ \A j \in 1..Len(returned') :
             returned'[j].status = "pending" /\ returned'[j].progress = 0]_vars

\* a rejected and an accepted candidate were offered together to a queue that
\* already held a task: one task was appended and returned
C18_Witness ==
  /\ offered = <<3, 1>>
  /\ Len(files) >= 2
  /\ Len(returned) = 1
  /\ files[Len(files)] = returned[1]
  /\ returned[1].cand = 1
  /\ Len(alerted) = 1

\* the acceptance rule: size within the maximum and a name ending in a dot
\* followed by an allowed extension
MeetsBothRules(f) ==
  f.size <= MAX_FILE_SIZE /\ EndsInAllowedExtension(f.name)

\* C19: addFilesToQueue accepts a candidate exactly when its size is at most
\* the maximum and its name ends in a dot followed by an allowed extension
\* (in any case); the declared content type plays no part.
C19_AcceptedIffBothRules ==
  /\ \A j \in 1..Len(returned) : MeetsBothRules(Candidates[returned[j].cand])
  /\ \A j \in 1..Len(alerted) : ~MeetsBothRules(Candidates[alerted[j].cand])

\* retryUpload(id) on a task that is not failed, or on an unknown id, leaves
\* the queue, the counter and the requests as they are
C20_RetryElseNothing ==
  \A id \in TaskIds :
    LET i == FindIndex(files, id) IN
    (i = 0 \/ files[i].status # "failed")
    => LET U == retryUpload(Before, id) IN
       /\ U.files = files
       /\ U.activeUploads = activeUploads
       /\ U.inflight = inflight

\* the step in which retryUpload resets a task: the task was failed; it is
\* now pending or uploading with progress 0 and no error; the only other
\* change is that processUploadQueue started min(slots, pending) tasks
C20_RetryStep ==
  retried' # 0
  => LET i == FindIndex(files, retried')
         slots == IF MAX_CONCURRENT_UPLOADS - activeUploads > 0
                  THEN MAX_CONCURRENT_UPLOADS - activeUploads ELSE 0
         n == Min(slots, Cardinality(WithStatus(files, "pending")) + 1)
     IN
     /\ i # 0 /\ files[i].status = "failed"
     /\ Len(files') = Len(files)
     /\ files'[i] \in {[files[i] EXCEPT !.status = st, !.progress = 0,
                                        !.error = "none"] :
                        st \in {"pending", "uploading"}}
     /\ \A j \in 1..Len(files) :
          j # i => \/ files'[j] = files[j]
                   \/ /\ files[j].status = "pending"
                      /\ files'[j] = [files[j] EXCEPT !.status = "uploading"]
     /\ Cardinality(WithStatus(files', "uploading"))
          = Cardinality(WithStatus(files, "uploading")) + n
     /\ activeUploads' = activeUploads + n
     /\ \A f \in TaskIds :
          inflight'[f] = inflight[f]
            + (IF \E k \in 1..Len(lastStarted') : lastStarted'[k] = f
               THEN 1 ELSE 0)

\* C20: retryUpload(id) on a failed task sets it to pending with progress 0
\* and no error and then runs processUploadQueue; on a task in any other
\* status, or on an unknown id, it changes nothing.
C20_RetryOnlyFailed == []C20_RetryElseNothing /\ [][C20_RetryStep]_vars

\* a failed task was retried and is uploading again with progress 0 and no
\* error, next to another task that is uploading
C20_Witness ==
  /\ retried # 0
  /\ LET i == FindIndex(files, retried) IN
     /\ i # 0
     /\ files[i].status = "uploading"
     /\ files[i].progress = 0
     /\ files[i].error = "none"
     /\ lastStarted = <<retried>>
  /\ \E j \in 1..Len(files) :
       files[j].id # retried /\ files[j].status = "uploading"

Finished(f) == f.status \in {"success", "failed"}

\* clearCompletedUploads() applied to the present queue keeps exactly the
\* tasks that are neither success nor failed, in their order, and leaves the
\* counter and the requests alone
C21_ClearKeepsActive ==
  LET U == clearCompletedUploads(Before) IN
  /\ U.files = SelectSeq(files, LAMBDA f : ~Finished(f))
  /\ \A i \in 1..Len(files) :
       files[i].status \in {"pending", "uploading"}
       => \E j \in 1..Len(U.files) : U.files[j] = files[i]
  /\ U.activeUploads = activeUploads
  /\ U.inflight = inflight

\* a step in which clearCompletedUploads removed a task
C21_ClearStep ==
  (\E f \in TaskIds : removedBy'[f] = "clear" /\ removedBy[f] # "clear")
  => /\ files' = SelectSeq(files, LAMBDA f : ~Finished(f))
     /\ \A f \in TaskIds :
          (removedBy'[f] = "clear" /\ removedBy[f] # "clear")
          <=> (FindIndex(files, f) # 0
               /\ Finished(files[FindIndex(files, f)]))
     /\ activeUploads' = activeUploads
     /\ inflight' = inflight

\* C21: clearCompletedUploads removes exactly the tasks whose status is
\* success or failed and leaves every pending and uploading task, their
\* order and activeUploads unchanged.
C21_ClearRemovesSettledOnly == []C21_ClearKeepsActive /\ [][C21_ClearStep]_vars

\* a settled task was cleared while a pending and an uploading task stayed
C21_Witness ==
  /\ \E f \in TaskIds : removedBy[f] = "clear"
  /\ WithStatus(files, "uploading") # {}
  /\ WithStatus(files, "pending") # {}
  /\ WithStatus(files, "success") = {}
  /\ WithStatus(files, "failed") = {}

\* the task with this id, as a one-element or empty set
TaskOf(fs, f) == {fs[i] : i \in {j \in 1..Len(fs) : fs[j].id = f}}

\* a step in which the request of an uploading task completes: the task's
\* status and error follow from what the request reported
C22_OutcomeStep ==
  \A f \in TaskIds :
    (Completes(f) /\ IsUploading(f))
    => \A t \in TaskOf(files', f) :
         /\ lastOutcome'.kind \in {"success", "failed", "transport"}
         /\ lastOutcome'.kind = "success"
              => t.status = "success"
         /\ lastOutcome'.kind \in {"failed", "transport"}
              => t.status = "failed" /\ t.error = lastOutcome'.error
         /\ TaskOf(files', f) # {}

\* a task in success carries no error
C22_SuccessHasNoError ==
  \A i \in 1..Len(files) :
    files[i].status = "success" => files[i].error = "none"

\* C22: The terminal state of an uploading task is determined by its
\* request's outcome: reported successful gives success, reported failed
\* gives failed with the server-reported reason, a transport error gives
\* failed with the error set from that error; a task in success carries no
\* error.
C22_TerminalStateByOutcome ==
  []C22_SuccessHasNoError /\ [][C22_OutcomeStep]_vars

\* the latest completion was reported failed with the server's reason, and
\* the queue also holds a success and a task failed by a transport error
C22_Witness ==
  /\ lastOutcome = [kind |-> "failed", error |-> "serverReason"]
  /\ \E i \in WithStatus(files, "failed") : files[i].error = "serverReason"
  /\ \E i \in WithStatus(files, "failed") :
       files[i].error = "transportMessage"
  /\ \E i \in WithStatus(files, "success") : files[i].error = "none"

\* the queued tasks that the step moves to success
MovedToSuccess ==
  {f \in TaskIds :
     /\ \E t \in TaskOf(files', f) : t.status = "success"
     /\ \E t \in TaskOf(files, f) : t.status # "success"}

\* C23: uploadComplete$ is emitted exactly when a task in the queue
\* transitions to success: once per such transition, never for a failed
\* completion or for a completion that moves no queued task to success.
C23_EmitsOncePerSuccess ==
  [][uploadCompleteEmits' = Cardinality(MovedToSuccess)]_vars

\* the server answers the login request c with an error status in this step
LoginFails(c) ==
  /\ calls[c].kind = "login"
  /\ calls[c].st = "inflight"
  /\ calls'[c].resp \in ErrorStatuses

\* C25: when the login endpoint answers with a non-2xx status (401 included)
\* login() delivers that error to the caller and changes nothing: store,
\* published state and timer are as before, and no navigation is raised.
C25_LoginErrorChangesNothing ==
  [][\A c \in CallIds :
       LoginFails(c)
       => /\ calls'[c].st = "err"
          /\ calls'[c].err = calls'[c].resp
          /\ storeAccess' = storeAccess
          /\ storeRefresh' = storeRefresh
          /\ storeUser' = storeUser
          /\ currentUser' = currentUser
          /\ isAuthenticatedSubject' = isAuthenticatedSubject
          /\ refreshTokenTimer' = refreshTokenTimer
          /\ navigatedToLogin' = navigatedToLogin]_vars

\* the server answers the login or refresh request c with 2xx in this step
AuthSucceeds(c) ==
  /\ calls[c].kind \in {"login", "refresh"}
  /\ calls[c].st \in {"inflight", "retry"}
  /\ calls'[c].st = "ok"

\* C26: after every successful login, signup or refresh response the stored
\* access token, refresh token and user are those of the response, the
\* published user is the response's user and a proactive refresh is
\* scheduled.
C26_SuccessStoresResponse ==
  [][\A c \in CallIds :
       AuthSucceeds(c)
       => /\ storeAccess' = calls'[c].newTok
          /\ storeRefresh' = Abs(calls'[c].newTok)
          /\ storeUser' = Abs(calls'[c].newTok)
          /\ currentUser' = Abs(calls'[c].newTok)
          /\ isAuthenticatedSubject'
          /\ refreshTokenTimer']_vars

\* the local logout is complete in T: store empty, null/false published, no
\* timer pending, navigation to /login raised
LoggedOutIn(T) ==
  /\ T.storeAccess = 0 /\ T.storeRefresh = 0 /\ T.storeUser = 0
  /\ T.currentUser = 0
  /\ ~T.isAuthenticatedSubject
  /\ ~T.refreshTokenTimer
  /\ T.navigatedToLogin

\* refreshToken() applied to the present state when no refresh token is
\* stored, whoever calls it
C27_NoRefreshTokenCall ==
  storeRefresh = 0
  => \A origin \in {"timer", "guard", "coord"} :
       LET T == refreshToken(State, origin, 0) IN
       /\ T.refreshResult = "NoRefreshToken"
       /\ T.calls = calls
       /\ T.nextCall = nextCall
       /\ Len(T.logoutLog) = 1
       /\ LoggedOutIn(T)

\* a step in which refreshToken() found no refresh token
C27_NoRefreshTokenStep ==
  refreshResult' = "NoRefreshToken"
  => /\ storeRefresh = 0
     /\ calls' = calls
     /\ nextCall' = nextCall
     /\ Len(logoutLog') = 1
     /\ storeAccess' = 0 /\ storeRefresh' = 0 /\ storeUser' = 0
     /\ currentUser' = 0
     /\ ~isAuthenticatedSubject'
     /\ pendingTimers' = 0
     /\ navigatedToLogin'

\* C27: refreshToken() called while no refresh token is stored fails at once
\* with the 'No refresh token' error, sends no refresh request and forces
\* logout (store cleared, unauthenticated state published, navigation to
\* login).
C27_NoRefreshTokenForcesLogout ==
  []C27_NoRefreshTokenCall /\ [][C27_NoRefreshTokenStep]_vars

\* the timer of a session whose store another tab emptied has fired
C27_Witness ==
  /\ refreshResult = "NoRefreshToken"
  /\ Len(logoutLog) = 1
  /\ ~logoutLog[1].hadRefresh
  /\ storeAccess = 0
  /\ currentUser = 0
  /\ navigatedToLogin
  /\ \A c \in CallIds : ~IsRefresh(c)

\* the logout() calls of a log that found a refresh token in the store
WithRefresh(log) == {i \in 1..Len(log) : log[i].hadRefresh}

\* logout() applied to the present state
C28_LogoutCall ==
  LET T == logout(State) IN
  /\ LoggedOutIn(T)
  /\ T.pendingTimers = pendingTimers - (IF refreshTokenTimer THEN 1 ELSE 0)
  /\ T.revocations = revocations + (IF storeRefresh # 0 THEN 1 ELSE 0)
  /\ T.calls = calls

\* a step in which logout() ran: the local logout is complete when the step
\* ends, and one revocation was posted for each call that found a refresh
\* token
C28_LogoutStep ==
  Len(logoutLog') > 0
  => /\ storeAccess' = 0 /\ storeRefresh' = 0 /\ storeUser' = 0
     /\ currentUser' = 0
     /\ ~isAuthenticatedSubject'
     /\ ~refreshTokenTimer'
     /\ pendingTimers' = 0
     /\ navigatedToLogin'
     /\ revocations' = revocations + Cardinality(WithRefresh(logoutLog'))
     /\ Cardinality(WithRefresh(logoutLog')) <= 1

\* a step in which a revocation request is answered
C28_AnswerStep ==
  revocations' < revocations
  => /\ storeAccess' = storeAccess
     /\ storeRefresh' = storeRefresh
     /\ storeUser' = storeUser
     /\ currentUser' = currentUser
     /\ isAuthenticatedSubject' = isAuthenticatedSubject
     /\ refreshTokenTimer' = refreshTokenTimer
     /\ pendingTimers' = pendingTimers
     /\ navigatedToLogin' = navigatedToLogin
     /\ calls' = calls

\* C28: logout() always completes the local logout (store cleared,
\* unauthenticated state published, timer cancelled, navigation raised)
\* whether the revocation request succeeds, fails or is never answered; the
\* revocation is sent at most once per logout and only if a refresh token
\* was stored.
C28_LogoutCompletesLocally ==
  /\ []C28_LogoutCall
  /\ [][C28_LogoutStep]_vars
  /\ [][C28_AnswerStep]_vars

\* a failed refresh ran logout() twice: the first call posted the
\* revocation, the second found no refresh token; the request is unanswered
C28_Witness ==
  /\ Len(logoutLog) = 2
  /\ logoutLog[1].hadRefresh
  /\ ~logoutLog[2].hadRefresh
  /\ revocations = 1
  /\ LoggedOutIn(State)

\* at most one timer is pending, the one the field refers to, and none while
\* the unauthenticated state is published or the store holds no access token
C29_TimerInv ==
  /\ pendingTimers <= 1
  /\ pendingTimers = (IF refreshTokenTimer THEN 1 ELSE 0)
  /\ ~isAuthenticatedSubject => pendingTimers = 0
  /\ storeAccess = 0 => pendingTimers = 0
  /\ scheduleTokenRefresh(State).pendingTimers <= 1
  /\ logout(State).pendingTimers = 0

\* a step in which a timer fires (its refreshToken() call is made)
C29_FireStep ==
  refreshResult' # "none" /\ pendingTimers' < pendingTimers
  => isAuthenticatedSubject /\ storeAccess # 0

\* C29: at every moment at most one proactive-refresh timer is pending:
\* scheduling cancels the pending one, and after logout none remains, so no
\* timer-triggered refresh fires while the session is unauthenticated.
C29_AtMostOneTimer == []C29_TimerInv /\ [][C29_FireStep]_vars

\* a second token pair was stored while the timer of the first was pending,
\* and one timer is pending
C29_Witness ==
  /\ storeAccess = 2
  /\ pendingTimers = 1
  /\ ~navigatedToLogin
  /\ \A c \in CallIds : calls[c].origin # "timer"

\* a step in which isAuthenticated() was called
C24_AnswerStep ==
  lastAnswer' # "none"
  => /\ lastAnswer' = "true"
          <=> /\ accessJwt.kind # "none"
              /\ accessJwt.kind = "jwt"
              /\ accessJwt.exp * 1000 > clockNow
     /\ (accessJwt.kind = "jwt" /\ accessJwt.exp * 1000 = clockNow)
          => lastAnswer' = "false"
     /\ (accessJwt.kind = "jwt" /\ accessJwt.exp * 1000 = clockNow + 1000)
          => lastAnswer' = "true"
     /\ accessJwt' = accessJwt
     /\ timerDue' = timerDue
     /\ UNCHANGED sessionVars

DueAfter(e) == handleAuthSuccessAt(ClockState, Jwt(e)).timerDue

\* two minutes before the expiry of a token with exp e, in ms
TwoMinutesBefore(e) == e * 1000 - 120000

\* the timer is due at max(now, exp*1000 - 120000), never in the past
C30_DueAtMax ==
  \A e \in ExpSeconds :
    /\ DueAfter(e) = Max(clockNow, TwoMinutesBefore(e))
    /\ TwoMinutesBefore(e) >= clockNow => DueAfter(e) = TwoMinutesBefore(e)
    /\ e * 1000 - clockNow <= 120000 => DueAfter(e) = clockNow
    /\ DueAfter(e) >= clockNow

\* a step that stores another access token schedules by the same rule
C30_ScheduleStep ==
  (accessJwt' # accessJwt /\ accessJwt'.kind = "jwt")
  => timerDue' = Max(clockNow, TwoMinutesBefore(accessJwt'.exp))

Sent(c) == calls[c].kind = "none" /\ calls'[c].kind # "none"

\* the first answer to call c arrives in this step and is an error
FirstAnswerIsError(c) ==
  calls[c].st = "inflight" /\ calls'[c].resp \in ErrorStatuses

\* a request is sent with the access token stored at that moment, if any
C31_SendStep ==
  \A c \in CallIds :
    Sent(c) => /\ calls'[c].tok = storeAccess
               /\ calls'[c].tok # 0 <=> storeAccess # 0

\* the refresh-and-retry sequence is entered only by a 401 on a request that
\* carried a token
C31_EnterStep ==
  \A c \in CallIds :
    (calls[c].st = "inflight"
       /\ calls'[c].st \in {"refreshing", "waiting", "retry"})
    => calls'[c].resp = "401" /\ calls[c].tok # 0

\* any other error goes to the caller as it is: no refresh is started, and
\* for a request of the application nothing of the session changes
C31_PassStep ==
  \A c \in CallIds :
    (FirstAnswerIsError(c) /\ (calls'[c].resp # "401" \/ calls[c].tok = 0))
    => /\ calls'[c].st = "err"
       /\ calls'[c].err = calls'[c].resp
       /\ calls'[c].sends = 1
       /\ nextCall' = nextCall
       /\ calls[c].kind = "api"
            => /\ logoutLog' = <<>>
               /\ isRefreshing' = isRefreshing
               /\ storeAccess' = storeAccess
               /\ storeRefresh' = storeRefresh
               /\ currentUser' = currentUser
               /\ isAuthenticatedSubject' = isAuthenticatedSubject
               /\ navigatedToLogin' = navigatedToLogin

\* C31: a request carries the stored access token iff one is stored when it
\* is sent; a 401 enters the refresh-and-retry sequence only if a token was
\* attached; a 401 on a request sent without a token, or any other error, is
\* passed to the caller unchanged with no refresh and no logout.
C31_TokenAttachedIffStored ==
  /\ [][C31_SendStep]_vars
  /\ [][C31_EnterStep]_vars
  /\ [][C31_PassStep]_vars

\* a request sent without a token got 401 and ended as that error, while a
\* request sent with a token had started a refresh
C31_Witness ==
  \E c, d \in CallIds :
    /\ calls[c].kind = "api" /\ calls[c].tok = 0
    /\ calls[c].resp = "401" /\ calls[c].st = "err" /\ calls[c].err = "401"
    /\ calls[d].kind = "api" /\ calls[d].tok # 0
    /\ calls[d].path = "trigger"

\* C34: the coordinator logs out only when the refresh itself failed or no
\* refresh token was available: when the refresh succeeded and the re-sent
\* request then fails, that failure goes to the request's caller and the
\* session stays authenticated with the newly issued tokens.
C34_RetryFailureKeepsSession ==
  [][\A c \in CallIds :
       (/\ calls[c].st = "retry" /\ calls'[c].st = "err"
        /\ storeAccess = calls[c].retryTok /\ isAuthenticatedSubject)
       => /\ calls'[c].err \in ErrorStatuses
          /\ logoutLog' = <<>>
          /\ storeAccess' = storeAccess
          /\ storeRefresh' = storeRefresh
          /\ storeUser' = storeUser
          /\ currentUser' = currentUser
          /\ isAuthenticatedSubject' = isAuthenticatedSubject
          /\ navigatedToLogin' = navigatedToLogin]_vars

\* C35: the coordinator's refreshing flag is true only while a refresh it
\* started is unanswered: once the refresh endpoint has answered (success or
\* any error) the flag is false again, so a later 401 can start a new
\* refresh.
C35_RefreshingOnlyWhileUnanswered ==
  isRefreshing
  => \E r \in CallIds :
       IsCoordRefresh(r) /\ calls[r].st = "inflight"

\* the status of task f in the queue fs ("absent" when it is not there)
StatusIn(fs, f) ==
  IF FindIndex(fs, f) = 0 THEN "absent" ELSE fs[FindIndex(fs, f)].status

\* the status changes one callback can make to a task that stays queued:
\* the edges pending -> uploading -> success | failed and failed -> pending,
\* the last followed at once by pending -> uploading when retryUpload finds
\* a free slot
C36_Edges ==
  \A f \in TaskIds :
    LET a == StatusIn(files, f)
        b == StatusIn(files', f)
    IN \/ a = b
       \/ a = "absent" /\ b \in {"pending", "uploading"} /\ f >= nextId
       \/ b = "absent"
       \/ a = "pending" /\ b = "uploading"
       \/ a = "uploading" /\ b \in {"success", "failed"}
       \/ a = "failed" /\ b = "pending" /\ retried' = f
       \/ a = "failed" /\ b = "uploading" /\ retried' = f

\* an uploading task has exactly one request in flight and no other queued
\* task has any, so no request of an earlier attempt outlives a retry
C36_OneRequest ==
  \A f \in TaskIds :
    /\ inflight[f] <= 1
    /\ StatusIn(files, f) = "uploading" => inflight[f] = 1
    /\ StatusIn(files, f) \in {"pending", "success", "failed"}
         => inflight[f] = 0

\* an event of the request of a removed task does not bring the task back
C36_LateEvent ==
  \A f \in TaskIds :
    (inflight[f] > 0 /\ StatusIn(files, f) = "absent")
    => StatusIn(files', f) = "absent"

IsGuardRefresh(c) ==
  calls[c].kind = "refresh" /\ calls[c].origin = "guard"

\* C39: the route guard allows activation only if isAuthenticated() is true
\* or a refresh it started has succeeded; when the refresh it started fails
\* or there is no refresh token it denies activation and navigates to the
\* login route. Here: the guard runs its refresh only when isAuthenticated()
\* is false; an answer to that refresh either is a success, and the guard
\* allows, or ends the guard's observable with the error in the same step,
\* with the application on the login route.
C39_GuardDecidesOnRefreshAnswer ==
  [][\A c \in CallIds :
       /\ (calls[c].st = "none" /\ IsGuardRefresh(c)')
            => ~isAuthenticated(State)
       /\ (IsGuardRefresh(c) /\ calls[c].st = "inflight"
             /\ calls'[c].st # "inflight")
            => \/ calls'[c].st = "ok" /\ calls'[c].newTok # 0
               \/ calls'[c].st = "err" /\ navigatedToLogin']_vars

\* the token in the Authorization header of the latest request passes
\* jwt.verify as an access token now: signed by the server and not expired
C33_TokenIsValid ==
  LET t == SecondField(lastReply.header) IN
  /\ t \in handedOut
  /\ t.typ = "access"
  /\ serverNow < t.iat + AccessLifetime

\* C33: a request to a protected endpoint that carries no token in its
\* Authorization header, or a token that fails verification, is answered
\* 401 and the handler does not run; the handler runs only with req.user
\* set to the decoded claims of a valid access token.
C33_HandlerOnlyBehindValidToken ==
  lastReply.endpoint = "protected"
  => /\ ~C33_TokenIsValid
          => lastReply.status = 401 /\ ~lastReply.handlerRan
     /\ lastReply.handlerRan
          => /\ C33_TokenIsValid
             /\ lastReply.reqUser = Claims(SecondField(lastReply.header))

\* a request carrying an access token the server signed, after its expiry,
\* was answered 401
C33_Witness ==
  /\ lastReply.endpoint = "protected"
  /\ lastReply.status = 401
  /\ SecondField(lastReply.header).typ = "access"
  /\ serverNow >= SecondField(lastReply.header).iat + AccessLifetime

\* C37: the backend accepts a refresh token only while it is in the store of
\* issued tokens; after a logout has revoked it, every later refresh request
\* presenting it is answered 401 with no access token; a refresh with a
\* valid token returns a new access token, one the server has not sent
\* before, and leaves that refresh token in the store.
C37_RefreshOnlyWithStoredToken ==
  [][lastReply'.endpoint = "refresh"
     => LET t == lastReply'.presented IN
        /\ lastReply'.status = 200 => t \in refreshTokens
        /\ t \in revoked
             => /\ lastReply'.status = 401
                /\ lastReply'.accessToken = NoToken
        /\ lastReply'.status = 200
             => /\ lastReply'.accessToken # NoToken
                /\ lastReply'.accessToken \notin handedOut
                /\ t \in refreshTokens'
                /\ refreshTokens' = refreshTokens]_vars

\* the users in this.users
StoredUsers == {users[i] : i \in DOMAIN users}

\* C40: registration keeps usernames, emails and ids unique under any
\* interleaving of concurrent signup requests: no two stored users share an
\* email or an id, and a user whose signup was answered 201 is not
\* overwritten by another signup with the same username.
C40_RegistrationKeepsUsersUnique ==
  /\ \A i, j \in DOMAIN users :
       i # j => /\ users[i].username # users[j].username
                /\ users[i].email # users[j].email
                /\ users[i].id # users[j].id
  /\ \A u \in signedUp : u \in StoredUsers

\* the files named in the successful list of an upload response
SavedNames(reply) ==
  {reply.successful[n].originalName : n \in DOMAIN reply.successful}

\* the result of an upload request of k >= 1 files partitions its files, the
\* counts add up and the status follows them
C32_Response ==
  (fileReply.endpoint = "upload" /\ fileReply.total >= 1)
  => LET S == SavedNames(fileReply)
         F == SeqToSet(fileReply.failed)
     IN /\ S \cup F = 1..fileReply.total
        /\ S \cap F = {}
        /\ Cardinality(S) = Len(fileReply.successful)
        /\ Cardinality(F) = Len(fileReply.failed)
        /\ fileReply.successCount = Len(fileReply.successful)
        /\ fileReply.failureCount = Len(fileReply.failed)
        /\ fileReply.successCount + fileReply.failureCount = fileReply.total
        /\ fileReply.status = IF fileReply.failureCount = 0 THEN 200
                              ELSE IF fileReply.successCount = 0 THEN 400
                              ELSE 207
        /\ \A n \in DOMAIN fileReply.successful :
             LET id == fileReply.successful[n].id IN
             /\ uploads[id].stored
             /\ uploads[id].uploadedBy = fileReply.user
             /\ uploads[id].originalName
                  = fileReply.successful[n].originalName

\* every file of a running request is saved or failed on its own: no file is
\* left out or given up because another one failed
C32_EverySaveRuns ==
  \A r \in UploadSlots :
    uploadRequests[r].st = "running"
    => /\ \A i \in 1..uploadRequests[r].total :
            uploadRequests[r].saves[i]
              \in {"waiting", "saving", "ok", "failed"}
       /\ \E i \in 1..uploadRequests[r].total :
            uploadRequests[r].saves[i] = "saving"

C38_OfAnother(f, user) ==
  uploads[f].stored /\ uploads[f].uploadedBy # user

====
